---------------------------- MODULE Spec2Model ----------------------------
(***************************************************************************)
(* A model of specer, the command line front end of SPEC CPU 2017's        *)
(* runcpu: the benchmark name resolver, the command builder, the affinity  *)
(* wrapper, the config generator and execute_runcpu (utils.py), the        *)
(* compile, run, setup, clean and update commands (commands/*.py), the     *)
(* parser of runcpu's live output and the parser of RSF result files       *)
(* (result_parser.py), and the commands of cli.app with their own builder  *)
(* and generator (cli.py).                                                 *)
(*                                                                         *)
(* Python strings are TLA+ strings; they are taken apart with Len, SubSeq  *)
(* and \o, so a regular expression of the source is an operator over the   *)
(* characters of the text it is matched against.                           *)
(***************************************************************************)
EXTENDS Integers, Sequences, FiniteSets, TLC

VARIABLES
    \* ---- name resolution and the commands that use it
    benchmarks,            \* the benchmark tokens given on the command line
    cpc,                   \* what was called and how far it got
    command,               \* the command invoked, "" for a direct call
    speed, rate,           \* the --speed / --rate flags (or the call's arguments)
    prefer_speed, prefer_rate,   \* the pair the resolver is called with
    converted_benchmarks,  \* the resolver's output
    exit_code,             \* the code of typer.Exit, -1 while none was raised
    \* ---- parse_result_files
    output,                \* the lines of runcpu output consumed so far
    result_files, scores, metrics, log_file,   \* the fields of result_info
    lpc,                   \* "lines", "returned" or "raised"
    parsed,                \* the value returned: "None" or "record"
    \* ---- read_result_file on an .rsf file
    content,               \* the lines of the file
    rsf_phase,             \* index of the pattern being applied, in dict order
    benchmark_results,     \* result_data["benchmark_results"]
    rpc,                   \* "open", "patterns" or "returned"
    rsf_result,            \* what was returned: "data" or "None"
    \* ---- build_runcpu_command
    bargs,                 \* the arguments of the call
    cmd,                   \* the list returned
    bpc,                   \* "call", "returned" or "exit" (typer.Exit(1))
    \* ---- build_affinity_command
    aargs,                 \* the arguments of the call and the tools installed
    acmd,                  \* the list returned
    apc,                   \* "call" or "returned"
    \* ---- generate_config_from_template
    gargs,                 \* the arguments of the call, as they were passed
    machine,               \* the installation the call runs on
    gpc,                   \* the step of the call that comes next
    template_content,      \* the text being rewritten, as its lines
    effective_compiler,    \* the local of that name, "" for None
    config_add,            \* the list of extra settings, as it grows
    generated,             \* the value returned
    tmpfiles,              \* the temporary directory: file name to lines
    gcalls,                \* how many calls were started
    caller_list,           \* the caller's list of extra settings, or None
    \* ---- an invocation of run, compile or clean; execute_runcpu
    iargs,                 \* the command and its options
    proc,                  \* what becomes of the external command
    ipc,                   \* the step of the invocation that comes next
    generated_config_path, \* the local of that name, "" for None
    final_cmd,             \* the command executed
    raised,                \* what the invocation has raised
    result_info,           \* what execute_runcpu returned: "None" or "record"
    events                 \* what the invocation has done outside itself

nameVars == <<benchmarks, cpc, command, speed, rate, prefer_speed, prefer_rate,
              converted_benchmarks, exit_code>>
liveVars == <<output, result_files, scores, metrics, log_file, lpc, parsed>>
rsfVars  == <<content, rsf_phase, benchmark_results, rpc, rsf_result>>
affVars  == <<aargs, acmd, apc>>
buildVars == <<bargs, cmd, bpc, affVars>>
genVars  == <<gargs, machine, gpc, template_content, effective_compiler,
             config_add, generated, tmpfiles, gcalls, caller_list>>
invVars  == <<iargs, proc, ipc, generated_config_path, final_cmd, raised,
              result_info, events>>
laterVars == <<buildVars, genVars, invVars>>
vars     == <<nameVars, liveVars, rsfVars, laterVars>>

-----------------------------------------------------------------------------
(* Strings *)

Ch(s, i) == SubSeq(s, i, i)

UpperChars == "ABCDEFGHIJKLMNOPQRSTUVWXYZ"
LowerChars == "abcdefghijklmnopqrstuvwxyz"
Digits == {"0", "1", "2", "3", "4", "5", "6", "7", "8", "9"}

IsDigit(c) == c \in Digits

UpperSet == {Ch(UpperChars, i) : i \in 1..Len(UpperChars)}

ToLower ==
    [c \in UpperSet |->
        Ch(LowerChars, CHOOSE i \in 1..Len(UpperChars) : Ch(UpperChars, i) = c)]

LowerChar(c) == IF c \in UpperSet THEN ToLower[c] ELSE c

\* str.lower()
RECURSIVE Lower(_)
Lower(s) ==
    IF s = "" THEN ""
    ELSE IF Len(s) = 1 THEN LowerChar(s)
    ELSE Lower(SubSeq(s, 1, Len(s) \div 2))
            \o Lower(SubSeq(s, Len(s) \div 2 + 1, Len(s)))

\* sub == s[p : p + len(sub)], p counted from 1
OccursAt(sub, s, p) ==
    /\ p >= 1
    /\ p + Len(sub) - 1 <= Len(s)
    /\ SubSeq(s, p, p + Len(sub) - 1) = sub

\* sub in s
Contains(sub, s) == \E p \in 1..(Len(s) - Len(sub) + 1) : OccursAt(sub, s, p)

\* The places where sub occurs in s.
Occurrences(sub, s) == {p \in 1..(Len(s) - Len(sub) + 1) : OccursAt(sub, s, p)}

\* s.endswith(suffix)
EndsWith(s, suffix) ==
    Len(suffix) <= Len(s) /\ OccursAt(suffix, s, Len(s) - Len(suffix) + 1)

\* s.split(sep)[0] for a one-character sep
SplitHead(s, sep) ==
    IF Contains(sep, s)
    THEN SubSeq(s, 1, (CHOOSE p \in 1..Len(s) :
                         /\ Ch(s, p) = sep
                         /\ \A q \in 1..(p - 1) : Ch(s, q) # sep) - 1)
    ELSE s

-----------------------------------------------------------------------------
(* utils.py: the benchmark name resolver *)

BENCHMARK_MAPPING ==
    ("perlbench" :> <<"600.perlbench_s", "500.perlbench_r">>) @@
    ("gcc"       :> <<"602.gcc_s", "502.gcc_r">>) @@
    ("mcf"       :> <<"605.mcf_s", "505.mcf_r">>) @@
    ("omnetpp"   :> <<"620.omnetpp_s", "520.omnetpp_r">>) @@
    ("xalancbmk" :> <<"623.xalancbmk_s", "523.xalancbmk_r">>) @@
    ("x264"      :> <<"625.x264_s", "525.x264_r">>) @@
    ("deepsjeng" :> <<"631.deepsjeng_s", "531.deepsjeng_r">>) @@
    ("leela"     :> <<"641.leela_s", "541.leela_r">>) @@
    ("exchange2" :> <<"648.exchange2_s", "548.exchange2_r">>) @@
    ("xz"        :> <<"657.xz_s", "557.xz_r">>) @@
    ("bwaves"    :> <<"603.bwaves_s", "503.bwaves_r">>) @@
    ("cactuBSSN" :> <<"607.cactuBSSN_s", "507.cactuBSSN_r">>) @@
    ("lbm"       :> <<"619.lbm_s", "519.lbm_r">>) @@
    ("wrf"       :> <<"621.wrf_s", "521.wrf_r">>) @@
    ("cam4"      :> <<"627.cam4_s", "527.cam4_r">>) @@
    ("pop2"      :> <<"628.pop2_s", "528.pop2_r">>) @@
    ("imagick"   :> <<"638.imagick_s", "538.imagick_r">>) @@
    ("nab"       :> <<"644.nab_s", "544.nab_r">>) @@
    ("fotonik3d" :> <<"649.fotonik3d_s", "549.fotonik3d_r">>) @@
    ("roms"      :> <<"654.roms_s", "554.roms_r">>)

Aliases == DOMAIN BENCHMARK_MAPPING

SuiteNames ==
    {"intspeed", "fpspeed", "specspeed", "intrate", "fprate", "specrate", "all"}

\* "." in benchmark and any(char.isdigit() for char in benchmark.split(".")[0])
IsFullSpecName(benchmark) ==
    /\ Contains(".", benchmark)
    /\ LET head == SplitHead(benchmark, ".")
       IN  \E i \in 1..Len(head) : IsDigit(Ch(head, i))

\* The table lookup of the loop body: the key looked up is the lower-cased
\* token, the keys of the table are as written in the source.
LookupKey(benchmark) == Lower(benchmark)

\* One turn of the loop of convert_benchmark_names: the token appended.
ConvertOne(benchmark, ps, pr) ==
    IF IsFullSpecName(benchmark) THEN benchmark
    ELSE IF Lower(benchmark) \in SuiteNames THEN benchmark
    ELSE IF LookupKey(benchmark) \in DOMAIN BENCHMARK_MAPPING
         THEN LET pair == BENCHMARK_MAPPING[LookupKey(benchmark)]
              IN  IF ps THEN pair[1]
                  ELSE IF pr THEN pair[2]
                  ELSE pair[1]
    ELSE benchmark

convert_benchmark_names(bs, ps, pr) ==
    [i \in 1..Len(bs) |-> ConvertOne(bs[i], ps, pr)]

\* The two branches of the loop body of detect_suite_preference.
SpeedSignal(benchmark) ==
    Contains("_s", benchmark) \/ Contains("speed", Lower(benchmark))

RateSignal(benchmark) ==
    Contains("_r", benchmark) \/ Contains("rate", Lower(benchmark))

\* if ...: speed_count += 1
CountsAsSpeed(benchmark) == SpeedSignal(benchmark)

\* The loop body with "if" in the place of "elif": the rate test made for
\* every token.
CountsAsRate_TestedAlone(benchmark) == RateSignal(benchmark)

\* elif ...: rate_count += 1
CountsAsRate(benchmark) == ~SpeedSignal(benchmark) /\ RateSignal(benchmark)

speed_count(bs) == Cardinality({i \in 1..Len(bs) : CountsAsSpeed(bs[i])})
rate_count(bs)  == Cardinality({i \in 1..Len(bs) : CountsAsRate(bs[i])})

detect_suite_preference(bs) ==
    <<speed_count(bs) > rate_count(bs), rate_count(bs) > speed_count(bs)>>


-----------------------------------------------------------------------------
(* commands/compile.py, run.py, setup.py, clean.py: the choice of variant *)

Commands == {"compile", "run", "setup", "clean"}

\* if not speed and not rate: detect_suite_preference(benchmarks)
\* else: speed, rate
ChosenPreference(bs, s, r) ==
    IF ~s /\ ~r THEN detect_suite_preference(bs) ELSE <<s, r>>

\* run.py 267-284: --reportable needs a full suite among the benchmarks
ReportableRejected(bs, reportable) ==
    /\ reportable
    /\ ~\E i \in 1..Len(bs) :
          Lower(bs[i]) \in {"intspeed", "intrate", "fpspeed", "fprate", "all"}

\* The steps every one of the four commands takes from its entry to the
\* resolved benchmark list. pre_ok says whether the command's own checks
\* between the flag check and the resolution passed (NUMA topology and core
\* list in compile and run; the reportable check, the spec root and the
\* config generation in run; none in setup and clean).
CommandResolves(name, s, r, pre_ok) ==
    /\ cpc = "start"
    /\ command' = name
    /\ speed' = s
    /\ rate' = r
    /\ IF s /\ r
       THEN /\ cpc' = "exit_flags"
            /\ exit_code' = 1
            /\ UNCHANGED <<prefer_speed, prefer_rate, converted_benchmarks>>
       ELSE IF ~pre_ok
       THEN /\ cpc' = "exit_pre"
            /\ exit_code' = 1
            /\ UNCHANGED <<prefer_speed, prefer_rate, converted_benchmarks>>
       ELSE LET pref == ChosenPreference(benchmarks, s, r)
            IN  /\ prefer_speed' = pref[1]
                /\ prefer_rate' = pref[2]
                /\ converted_benchmarks' =
                       convert_benchmark_names(benchmarks, pref[1], pref[2])
                /\ cpc' = "resolved"
                /\ UNCHANGED exit_code
    /\ UNCHANGED <<benchmarks, liveVars, rsfVars, laterVars>>

compile_command ==
    \E s \in BOOLEAN, r \in BOOLEAN, numa_ok \in BOOLEAN :
        CommandResolves("compile", s, r, numa_ok)

run_command ==
    \E s \in BOOLEAN, r \in BOOLEAN, reportable \in BOOLEAN, env_ok \in BOOLEAN :
        CommandResolves("run", s, r,
                        env_ok /\ ~ReportableRejected(benchmarks, reportable))

setup_command ==
    \E s \in BOOLEAN, r \in BOOLEAN : CommandResolves("setup", s, r, TRUE)

clean_command ==
    \E s \in BOOLEAN, r \in BOOLEAN : CommandResolves("clean", s, r, TRUE)

\* A direct call of convert_benchmark_names with any pair of preferences.
CallConvert ==
    /\ cpc = "start"
    /\ \E ps \in BOOLEAN, pr \in BOOLEAN :
          /\ prefer_speed' = ps
          /\ prefer_rate' = pr
          /\ converted_benchmarks' = convert_benchmark_names(benchmarks, ps, pr)
    /\ cpc' = "converted"
    /\ UNCHANGED <<benchmarks, command, speed, rate, exit_code, liveVars, rsfVars, laterVars>>

\* A direct call of detect_suite_preference.
CallDetect ==
    /\ cpc = "start"
    /\ prefer_speed' = detect_suite_preference(benchmarks)[1]
    /\ prefer_rate' = detect_suite_preference(benchmarks)[2]
    /\ cpc' = "detected"
    /\ UNCHANGED <<benchmarks, command, speed, rate, converted_benchmarks,
                   exit_code, liveVars, rsfVars, laterVars>>

\* The longest benchmark list given on a command line.
MaxBench == 3

\* The tokens a command line is built from: every alias of the table, aliases
\* in other letter cases, full SPEC ids, suite keywords (one capitalised),
\* unknown names, and names that carry a speed and a rate signal at once.
BenchTokens ==
    Aliases \cup
    {"GCC", "Lbm", "cactubssn", "CACTUBSSN",
     "602.gcc_s", "519.lbm_r", "507.cactuBSSN_r",
     "intspeed", "fprate", "all", "IntRate",
     "unknown_benchmark", "foo", "a.gcc",
     "rate_s", "SPEED_r"}

\* The tokens that lists of several benchmarks are built from: aliases (one of
\* them in another letter case), full ids of both variants, suite keywords, an
\* unknown name and a name with both signals.
CoreTokens ==
    {"gcc", "cactuBSSN", "Lbm", "602.gcc_s", "519.lbm_r", "intspeed", "fprate",
     "rate_s", "foo"}

RECURSIVE SeqsUpTo(_, _)
SeqsUpTo(S, n) ==
    IF n = 0 THEN {<<>>}
    ELSE LET shorter == SeqsUpTo(S, n - 1)
         IN  shorter \cup {Append(q, x) : q \in {t \in shorter : Len(t) = n - 1}, x \in S}

\* The command lines: every token alone, and every list of up to MaxBench of
\* the core tokens.
BenchLists == {<<t>> : t \in BenchTokens} \cup SeqsUpTo(CoreTokens, MaxBench)

NamesIdle ==
    /\ cpc = "idle"
    /\ benchmarks = <<>>
    /\ command = ""
    /\ speed = FALSE
    /\ rate = FALSE
    /\ prefer_speed = FALSE
    /\ prefer_rate = FALSE
    /\ converted_benchmarks = <<>>
    /\ exit_code = -1

NamesStart ==
    /\ benchmarks \in BenchLists
    /\ cpc = "start"
    /\ command = ""
    /\ speed = FALSE
    /\ rate = FALSE
    /\ prefer_speed = FALSE
    /\ prefer_rate = FALSE
    /\ converted_benchmarks = <<>>
    /\ exit_code = -1

NextNames ==
    \/ compile_command
    \/ run_command
    \/ setup_command
    \/ clean_command
    \/ CallConvert
    \/ CallDetect

-----------------------------------------------------------------------------
(* More strings: what the regular expressions of result_parser.py need *)

Min(S) == CHOOSE x \in S : \A y \in S : x <= y

Letters == {Ch(LowerChars, i) : i \in 1..Len(LowerChars)}

\* \w
WordChars == Digits \cup Letters \cup UpperSet \cup {"_"}

\* [\d.]
NumChars == Digits \cup {"."}

\* \s, as far as a line holds it
Spaces == {" "}

\* The first place at or after from where sub occurs in s, 0 when there is none.
RECURSIVE FindFrom(_, _, _)
FindFrom(sub, s, from) ==
    IF from + Len(sub) - 1 > Len(s) THEN 0
    ELSE IF OccursAt(sub, s, from) THEN from
    ELSE FindFrom(sub, s, from + 1)

\* The first place from lo to hi where sub occurs in s, 0 when there is
\* none: the left half is searched before the right one.
RECURSIVE FindIn(_, _, _, _)
FindIn(sub, s, lo, hi) ==
    IF lo > hi THEN 0
    ELSE IF lo = hi THEN (IF OccursAt(sub, s, lo) THEN lo ELSE 0)
    ELSE LET left == FindIn(sub, s, lo, (lo + hi) \div 2)
         IN  IF left # 0 THEN left ELSE FindIn(sub, s, (lo + hi) \div 2 + 1, hi)

\* s.find(sub), counted from 1: 0 when sub is not in s
Find(sub, s) == FindIn(sub, s, 1, Len(s) - Len(sub) + 1)

\* The last index of the longest run of characters of class C that starts at
\* p (p - 1 when the run is empty): a greedy [C]* at p.
RECURSIVE RunEnd(_, _, _)
RunEnd(s, p, C) ==
    IF p <= Len(s) /\ Ch(s, p) \in C THEN RunEnd(s, p + 1, C) ELSE p - 1

\* The same for the characters outside C: a greedy [^C]* at p.
RECURSIVE RunEndNot(_, _, _)
RunEndNot(s, p, C) ==
    IF p <= Len(s) /\ Ch(s, p) \notin C THEN RunEndNot(s, p + 1, C) ELSE p - 1

\* The first index of the run of characters of class C that ends at p.
RECURSIVE RunStart(_, _, _)
RunStart(s, p, C) ==
    IF p >= 1 /\ Ch(s, p) \in C THEN RunStart(s, p - 1, C) ELSE p + 1

\* str.strip()
Strip(s) ==
    LET first == RunEnd(s, 1, Spaces) + 1
        last  == RunStart(s, Len(s), Spaces) - 1
    IN  IF first > last THEN "" ELSE SubSeq(s, first, last)

\* str.split(): the maximal runs of non-space characters, in order
RECURSIVE SplitFrom(_, _)
SplitFrom(s, p) ==
    IF p > Len(s) THEN <<>>
    ELSE IF Ch(s, p) \in Spaces THEN SplitFrom(s, p + 1)
    ELSE LET e == RunEndNot(s, p, Spaces)
         IN  <<SubSeq(s, p, e)>> \o SplitFrom(s, e + 1)

Split(s) == SplitFrom(s, 1)

\* (.*?)(?:\s|$) at p: the characters from p up to the next space or the end
TokenAt(s, p) == SubSeq(s, p, RunEndNot(s, p, Spaces))

DigitVal(c) == CHOOSE v \in 0..9 : Ch("0123456789", v + 1) = c

RECURSIVE Pow10(_)
Pow10(k) == IF k = 0 THEN 1 ELSE 10 * Pow10(k - 1)

\* The digits of s read as a decimal integer, other characters skipped.
RECURSIVE DigitsValue(_, _)
DigitsValue(s, acc) ==
    IF s = "" THEN acc
    ELSE DigitsValue(SubSeq(s, 2, Len(s)),
                     IF IsDigit(Ch(s, 1)) THEN 10 * acc + DigitVal(Ch(s, 1)) ELSE acc)

\* A decimal number n / 10^k in lowest terms of ten: equal numbers are equal
\* records.
RECURSIVE Normal(_, _)
Normal(n, k) ==
    IF k > 0 /\ n % 10 = 0 THEN Normal(n \div 10, k - 1) ELSE [n |-> n, k |-> k]

\* Whether float(tok) returns, for a token of digits and dots: at least one
\* digit and at most one dot. Otherwise it raises ValueError.
FloatOk(tok) ==
    /\ \E i \in 1..Len(tok) : IsDigit(Ch(tok, i))
    /\ Cardinality({i \in 1..Len(tok) : Ch(tok, i) = "."}) <= 1

\* float(tok) where FloatOk(tok)
ParseFloat(tok) ==
    LET dot == FindFrom(".", tok, 1)
        k   == IF dot = 0 THEN 0 ELSE Len(tok) - dot
    IN  Normal(DigitsValue(tok, 0), k)

\* int(value) of a non-negative float
IntOf(v) == v.n \div Pow10(v.k)

-----------------------------------------------------------------------------
(* result_parser.py: parse_result_files, the parser of runcpu's live output *)

\* A search that found nothing, and one that found its groups. Every pattern
\* is searched with re.IGNORECASE: the literal parts are looked for in the
\* lower-cased line, the groups are cut out of the line as it is.
NoMatch == [ok |-> FALSE, g1 |-> "", g2 |-> ""]
Match(a, b) == [ok |-> TRUE, g1 |-> a, g2 |-> b]

\* r"The result.*?is in (.*?)(?:\s|$)"
ResultFileMatch(line) ==
    LET l == Lower(line)
        p == FindFrom("the result", l, 1)
        q == IF p = 0 THEN 0 ELSE FindFrom("is in ", l, p + Len("the result"))
    IN  IF q = 0 THEN NoMatch ELSE Match(TokenAt(line, q + Len("is in ")), "")

\* r"The log for this run is in (.*?)(?:\s|$)"
LogFileMatch(line) ==
    LET lit == "the log for this run is in "
        p   == FindFrom(lit, Lower(line), 1)
    IN  IF p = 0 THEN NoMatch ELSE Match(TokenAt(line, p + Len(lit)), "")

\* r"(?:format to|reports are in) (.*?)(?:\s|$)"
ReportLocationMatch(line) ==
    LET l == Lower(line)
        a == FindFrom("format to ", l, 1)
        b == FindFrom("reports are in ", l, 1)
    IN  IF a = 0 /\ b = 0 THEN NoMatch
        ELSE IF b = 0 \/ (a # 0 /\ a < b)
             THEN Match(TokenAt(line, a + Len("format to ")), "")
             ELSE Match(TokenAt(line, b + Len("reports are in ")), "")

\* SPEC\w+\d+_\w+_\w+ matched against a whole run of \w characters: SPEC, at
\* least one character, a digit followed by "_", at least one character, "_",
\* at least one character.
IsScoreName(run) ==
    /\ Len(run) >= 4
    /\ Lower(SubSeq(run, 1, 4)) = "spec"
    /\ \E d \in 6..(Len(run) - 1) :
          /\ IsDigit(Ch(run, d))
          /\ Ch(run, d + 1) = "_"
          /\ \E u \in (d + 3)..(Len(run) - 1) : Ch(run, u) = "_"

\* SPEC\w+\d+_\w+ matched against a whole run of \w characters.
IsMetricName(run) ==
    /\ Len(run) >= 4
    /\ Lower(SubSeq(run, 1, 4)) = "spec"
    /\ \E d \in 6..(Len(run) - 2) : IsDigit(Ch(run, d)) /\ Ch(run, d + 1) = "_"

\* The parts of r"Est\. (<name>)\s*=\s*([\d.]+)" tried at p: the name is the
\* whole run of \w characters after "Est. " (what follows the group is a space
\* or "=", never a \w character), the number the whole run of digits and dots.
EstParts(line, p) ==
    LET ns == p + Len("est. ")
        ne == RunEnd(line, ns, WordChars)
        eq == RunEnd(line, ne + 1, Spaces) + 1
        vs == RunEnd(line, eq + 1, Spaces) + 1
        ve == RunEnd(line, vs, NumChars)
    IN  [name |-> SubSeq(line, ns, ne),
         shaped |-> eq <= Len(line) /\ Ch(line, eq) = "=" /\ ve >= vs,
         num |-> IF ve >= vs THEN SubSeq(line, vs, ve) ELSE ""]

\* re.search of the score_line or the metric_line pattern: the leftmost place
\* where the whole pattern matches.
EstMatch(line, pattern_name) ==
    LET P == {p \in Occurrences("est. ", Lower(line)) :
                 /\ EstParts(line, p).shaped
                 /\ IF pattern_name = "score_line"
                    THEN IsScoreName(EstParts(line, p).name)
                    ELSE IsMetricName(EstParts(line, p).name)}
    IN  IF P = {} THEN NoMatch
        ELSE Match(EstParts(line, Min(P)).name, EstParts(line, Min(P)).num)

ScoreLineMatch(line) == EstMatch(line, "score_line")

MetricLineMatch(line) == EstMatch(line, "metric_line")

\* d[k] = v
Put(d, k, v) == [x \in (DOMAIN d) \cup {k} |-> IF x = k THEN v ELSE d[x]]

Paths(files) == {files[i].path : i \in 1..Len(files)}

\* The append of an announced path without the test for a known path.
AppendResult_Always(files, file_path) ==
    IF file_path # ""
    THEN Append(files, [path |-> file_path, type |-> "result"])
    ELSE files

\* if file_path and file_path not in [...]: result_files.append(...)
AppendResult(files, file_path) ==
    IF file_path # "" /\ file_path \notin Paths(files)
    THEN Append(files, [path |-> file_path, type |-> "result"])
    ELSE files

Exts == {".rsf", ".html", ".pdf", ".txt", ".ps"}

\* The loop over line.split(): a word that ends in one of the extensions and
\* is not yet a path of result_files is appended with type "result_file".
RECURSIVE SniffWords(_, _)
SniffWords(files, words) ==
    IF words = <<>> THEN files
    ELSE LET word == Head(words)
             next == IF /\ \E ext \in Exts : EndsWith(word, ext)
                        /\ word \notin Paths(files)
                     THEN Append(files, [path |-> word, type |-> "result_file"])
                     ELSE files
         IN  SniffWords(next, Tail(words))

\* if any(ext in line.lower() ...): the loop over the words
Sniff(files, line) ==
    IF \E ext \in Exts : Contains(ext, Lower(line))
    THEN SniffWords(files, Split(line))
    ELSE files

NoneLog == [is_none |-> TRUE, value |-> ""]
SomeLog(path) == [is_none |-> FALSE, value |-> path]

\* float() of the number of a matched score or metric line raises ValueError
LineRaises(line) ==
    \/ ScoreLineMatch(line).ok /\ ~FloatOk(ScoreLineMatch(line).g2)
    \/ MetricLineMatch(line).ok /\ ~FloatOk(MetricLineMatch(line).g2)

\* result_files after the patterns and the sniffing of one line
FilesAfter(files, line) ==
    LET rf == ResultFileMatch(line)
        rp == ReportLocationMatch(line)
        f1 == IF rf.ok THEN AppendResult(files, rf.g1) ELSE files
        f2 == IF rp.ok THEN AppendResult(f1, rp.g1) ELSE f1
    IN  Sniff(f2, line)

\* The score branch with a guard that keeps the first value of a name.
ScoresAfter_KeepFirst(sc, line) ==
    LET m == ScoreLineMatch(line)
    IN  IF m.ok /\ m.g1 \notin DOMAIN sc
        THEN Put(sc, m.g1, ParseFloat(m.g2)) ELSE sc

ScoresAfter(sc, line) ==
    LET m == ScoreLineMatch(line)
    IN  IF m.ok THEN Put(sc, m.g1, ParseFloat(m.g2)) ELSE sc

MetricsAfter(me, line) ==
    LET m == MetricLineMatch(line)
    IN  IF m.ok THEN Put(me, m.g1, ParseFloat(m.g2)) ELSE me

LogAfter(lg, line) ==
    LET m == LogFileMatch(line)
    IN  IF m.ok THEN SomeLog(m.g1) ELSE lg

\* The number of lines of output the parser is given.
MaxLines == 2

\* The lines runcpu's output is made of.
LiveLines ==
    {"",
     "Building 602.gcc_s base test-label",
     "Build successful",
     "Est. SPECspeed2017_int_base = 123.45",
     "Est. SPECspeed2017_int_base = 145.67",
     "  Est. SPECspeed2017_int_peak = 7",
     "est. specspeed2017_fp_base=9.50",
     "Est. SPECrate2017_int = 5.0",
     "Est. SPECspeed2017_int_base = 1.2.3",
     "Est. SPECrate2017_fp = 1..2",
     "Est. SPECspeed2017_int_base = n/a",
     "The result is in result/CPU2017.001.test.rsf",
     "The results summary is in out.csv now",
     "The log for this run is in result/CPU2017.001.log",
     "The log for this run is in  x",
     "Reports are in result/CPU2017.001.test.txt",
     "format to result/CPU2017.001.test.rsf",
     "Output written to result/CPU2017.002.ref.html",
     "wrote result/CPU2017.001.test.rsf",
     "see A.RSF B.PDF"}

\* One turn of "for line in lines": the patterns in the order of the dict,
\* then the sniffing of the words. A ValueError of float() ends the call.
ReadLine ==
    /\ lpc = "lines"
    /\ Len(output) < MaxLines
    /\ \E raw \in LiveLines :
          LET line == Strip(raw)
          IN  /\ output' = Append(output, raw)
              /\ IF LineRaises(line)
                 THEN /\ lpc' = "raised"
                      /\ UNCHANGED <<result_files, scores, metrics, log_file>>
                 ELSE /\ lpc' = "lines"
                      /\ result_files' = FilesAfter(result_files, line)
                      /\ scores' = ScoresAfter(scores, line)
                      /\ metrics' = MetricsAfter(metrics, line)
                      /\ log_file' = LogAfter(log_file, line)
    /\ UNCHANGED <<parsed, nameVars, rsfVars, laterVars>>

\* log_file as a truth value: neither None nor ""
Truthy(lg) == ~lg.is_none /\ lg.value # ""

\* The condition of the return statement with the metrics counted as well.
ReturnsRecord_WithMetrics(ri) ==
    \/ ri.result_files # <<>>
    \/ DOMAIN ri.scores # {}
    \/ DOMAIN ri.metrics # {}
    \/ Truthy(ri.log_file)

\* The condition of the return statement, on the fields of result_info.
ReturnsRecord(ri) ==
    \/ ri.result_files # <<>>
    \/ DOMAIN ri.scores # {}
    \/ Truthy(ri.log_file)

\* return result_info if ... else None, once the lines are used up
ParseReturn ==
    /\ lpc = "lines"
    /\ lpc' = "returned"
    /\ parsed' = IF ReturnsRecord([result_files |-> result_files,
                                   scores |-> scores,
                                   metrics |-> metrics,
                                   log_file |-> log_file])
                 THEN "record" ELSE "None"
    /\ UNCHANGED <<output, result_files, scores, metrics, log_file,
                   nameVars, rsfVars, laterVars>>

LiveIdle ==
    /\ output = <<>>
    /\ result_files = <<>>
    /\ scores = <<>>
    /\ metrics = <<>>
    /\ log_file = NoneLog
    /\ lpc = "idle"
    /\ parsed = ""

LiveStart ==
    /\ output = <<>>
    /\ result_files = <<>>
    /\ scores = <<>>
    /\ metrics = <<>>
    /\ log_file = NoneLog
    /\ lpc = "lines"
    /\ parsed = ""

NextLive == ReadLine \/ ParseReturn

-----------------------------------------------------------------------------
(* result_parser.py: read_result_file on an .rsf file *)

\* The patterns of the RSF branch, in the order of the dict.
RsfPatterns ==
    <<"suite_base_mean", "suite_peak_mean", "suite_base_energy",
      "suite_peak_energy", "detailed_ratio", "detailed_time",
      "detailed_reference", "detailed_copies", "detailed_threads",
      "benchmark_ratio", "benchmark_time", "benchmark_result",
      "benchmark_error">>

\* The literal that ends each detailed_* and legacy pattern before ":".
FieldOf(pattern_name) ==
    CASE pattern_name = "detailed_ratio"     -> "ratio"
      [] pattern_name = "detailed_time"      -> "reported_sec"
      [] pattern_name = "detailed_reference" -> "reference"
      [] pattern_name = "detailed_copies"    -> "copies"
      [] pattern_name = "detailed_threads"   -> "threads"
      [] pattern_name = "benchmark_ratio"    -> "ratio"
      [] pattern_name = "benchmark_time"     -> "time"
      [] pattern_name = "benchmark_result"   -> "result"

\* pattern_name.split("_", 1)[1]: the metric type the value is stored under
MetricType(pattern_name) ==
    LET us == FindFrom("_", pattern_name, 1)
    IN  SubSeq(pattern_name, us + 1, Len(pattern_name))

\* \s in the text of a file: the blank, the tab and the line end
White == {" ", "\t", "\n"}

\* f.read(): the lines of the file with the line ends between them
RECURSIVE FileText(_)
FileText(lines) ==
    IF lines = <<>> THEN ""
    ELSE IF Len(lines) = 1 THEN lines[1]
    ELSE lines[1] \o "\n" \o FileText(Tail(lines))

\* The text in lower case: re.IGNORECASE for the literal parts of a pattern
RECURSIVE LowerText(_)
LowerText(lines) ==
    IF lines = <<>> THEN ""
    ELSE IF Len(lines) = 1 THEN Lower(lines[1])
    ELSE Lower(lines[1]) \o "\n" \o LowerText(Tail(lines))

\* The literal every match of a pattern begins with.
LitOf(pattern_name) ==
    CASE pattern_name = "suite_base_mean"   -> "spec.cpu2017.basemean:"
      [] pattern_name = "suite_peak_mean"   -> "spec.cpu2017.peakmean:"
      [] pattern_name = "suite_base_energy" -> "spec.cpu2017.baseenergymean:"
      [] pattern_name = "suite_peak_energy" -> "spec.cpu2017.peakenergymean:"
      [] pattern_name = "benchmark_error"   -> "spec.cpu2017.errors"
      [] pattern_name \in {"benchmark_ratio", "benchmark_time", "benchmark_result"}
                                            -> "spec.cpu2017."
      [] OTHER                              -> "spec.cpu2017.results."

\* The parts of r"<lit>\s*([\d.]+)", the suite mean patterns, tried at p of
\* the text s: \s* runs over blanks and line ends, the number is the whole
\* run of digits and dots after them. last is the place where the match ends.
SuiteParts(s, p, lit) ==
    LET vs == RunEnd(s, p + Len(lit), White) + 1
        ve == RunEnd(s, vs, NumChars)
    IN  [shaped |-> ve >= vs,
         g1 |-> IF ve >= vs THEN SubSeq(s, vs, ve) ELSE "",
         g2 |-> "",
         last |-> ve]

\* The parts of r"<lit>(\d{3}<sep>\w+(?:_[rs])?)<tail>\s*([\d.]+)" tried at
\* p of the text s with lower-case copy l, where <tail> is "\.(?:base|peak)"
\* followed by mid and the field. The id ends where its run of \w characters
\* ends: a "." follows it.
KeyedParts(s, l, p, lit, sep, mid, fld) ==
    LET is == p + Len(lit)
        ie == RunEnd(s, is + 4, WordChars)
        tb == ".base" \o mid \o fld \o ":"
        tp == ".peak" \o mid \o fld \o ":"
        vs == RunEnd(s, ie + Len(tb) + 1, White) + 1
        ve == RunEnd(s, vs, NumChars)
        ok == /\ is + 3 <= Len(s)
              /\ \A i \in is..(is + 2) : IsDigit(Ch(s, i))
              /\ Ch(s, is + 3) = sep
              /\ ie >= is + 4
              /\ OccursAt(tb, l, ie + 1) \/ OccursAt(tp, l, ie + 1)
              /\ ve >= vs
    IN  [shaped |-> ok,
         g1 |-> IF ok THEN SubSeq(s, is, ie) ELSE "",
         g2 |-> IF ok THEN SubSeq(s, vs, ve) ELSE "",
         last |-> ve]

\* r"spec\.cpu2017\.results\.(\d{3}_\w+(?:_[rs])?)\.(?:base|peak)\.000\.<field>:\s*([\d.]+)"
DetailedParts(s, l, p, fld) ==
    KeyedParts(s, l, p, "spec.cpu2017.results.", "_", ".000.", fld)

\* r"spec\.cpu2017\.(\d{3}\.\w+(?:_[rs])?)\.(?:base|peak)\.<field>:\s*([\d.]+)"
LegacyParts(s, l, p, fld) ==
    KeyedParts(s, l, p, "spec.cpu2017.", ".", ".", fld)

\* The parts of
\* r"spec\.cpu2017\.errors\d+:\s*(\d{3}\.\w+(?:_[rs])?)\s*\([^)]+\)\s*(.+)"
\* tried at p of the text s. [^)]+ runs to the first ")" after "(", over line
\* ends as well. The last \s* takes every blank and line end after ")"; the
\* message (.+) is what follows them up to the end of that line. When the
\* text ends with them, \s* gives characters back until (.+) has one that
\* is not a line end: the message is the last blank before the line ends
\* that close the text, and there is no match without such a blank.
ErrorParts(s, p) ==
    LET lit == "spec.cpu2017.errors"
        ns == p + Len(lit)
        ne == RunEnd(s, ns, Digits)
        is == RunEnd(s, ne + 2, White) + 1
        ie == RunEnd(s, is + 4, WordChars)
        po == RunEnd(s, ie + 1, White) + 1
        pc == FindIn(")", s, po + 1, Len(s))
        we == RunEnd(s, pc + 1, White)
        ms == IF we < Len(s) THEN we + 1 ELSE RunStart(s, we, {"\n"}) - 1
        nl == FindIn("\n", s, ms, Len(s))
        me == IF nl = 0 THEN Len(s) ELSE nl - 1
        ok == /\ ne >= ns
              /\ OccursAt(":", s, ne + 1)
              /\ is + 3 <= Len(s)
              /\ \A i \in is..(is + 2) : IsDigit(Ch(s, i))
              /\ Ch(s, is + 3) = "."
              /\ ie >= is + 4
              /\ OccursAt("(", s, po)
              /\ pc >= po + 2
              /\ ms > pc
              /\ ms <= Len(s)
    IN  [shaped |-> ok,
         g1 |-> IF ok THEN SubSeq(s, is, ie) ELSE "",
         g2 |-> IF ok THEN SubSeq(s, ms, me) ELSE "",
         last |-> me]

\* str.replace(old, new, 1) for a one-character old
ReplaceFirst(s, old, new) ==
    LET p == FindFrom(old, s, 1)
    IN  IF p = 0 THEN s
        ELSE SubSeq(s, 1, p - 1) \o new \o SubSeq(s, p + 1, Len(s))

\* str.replace(old, new) for a one-character old: every occurrence
RECURSIVE ReplaceEvery(_, _, _)
ReplaceEvery(s, old, new) ==
    IF s = "" THEN ""
    ELSE (IF Ch(s, 1) = old THEN new ELSE Ch(s, 1))
            \o ReplaceEvery(SubSeq(s, 2, Len(s)), old, new)

\* The key with every underscore of the id replaced.
BenchmarkKey_EveryUnderscore(id) == ReplaceEvery(id, "_", ".")

\* match[0].replace("_", ".", 1)
BenchmarkKey(id) == ReplaceFirst(id, "_", ".")

\* benchmark_results[name][field] = v, the entry created when it is missing
PutField(br, name, fld, v) ==
    Put(br, name, Put(IF name \in DOMAIN br THEN br[name] ELSE <<>>, fld, v))

\* The error branch without its condition.
HasRatio_Unconditional(br, benchmark) == TRUE

\* benchmark_results[benchmark].get("ratio"): a ratio that is there and not 0
HasRatio(br, benchmark) ==
    /\ benchmark \in DOMAIN br
    /\ "ratio" \in DOMAIN br[benchmark]
    /\ br[benchmark]["ratio"].n # 0

\* One pattern tried at p of the text: whether it matches there, its groups
\* and the place where the match ends.
PartsOf(pattern_name, s, l, p) ==
    IF pattern_name \in {"suite_base_mean", "suite_peak_mean",
                         "suite_base_energy", "suite_peak_energy"}
    THEN SuiteParts(s, p, LitOf(pattern_name))
    ELSE IF pattern_name = "benchmark_error" THEN ErrorParts(s, p)
    ELSE IF pattern_name \in {"benchmark_ratio", "benchmark_time", "benchmark_result"}
         THEN LegacyParts(s, l, p, FieldOf(pattern_name))
    ELSE DetailedParts(s, l, p, FieldOf(pattern_name))

\* The matches of a pattern in the text from the place from on: the leftmost
\* one, then those of the text after its end.
RECURSIVE MatchesFrom(_, _, _, _)
MatchesFrom(pattern_name, s, l, from) ==
    LET lit == LitOf(pattern_name)
        P == {p \in from..(Len(l) - Len(lit) + 1) :
                 OccursAt(lit, l, p) /\ PartsOf(pattern_name, s, l, p).shaped}
    IN  IF P = {} THEN <<>>
        ELSE LET parts == PartsOf(pattern_name, s, l, Min(P))
             IN  <<Match(parts.g1, parts.g2)>>
                     \o MatchesFrom(pattern_name, s, l, parts.last + 1)

\* re.findall(pattern, content, re.IGNORECASE | re.MULTILINE): every match
\* that does not overlap an earlier one, from left to right, over the whole
\* text of the file.
findall(pattern_name, lines) ==
    MatchesFrom(pattern_name, FileText(lines), LowerText(lines), 1)

\* Whether the body of "for match in matches" raises ValueError on the match:
\* every pattern but benchmark_error converts its number with float().
MatchRaises(pattern_name, m) ==
    /\ m.ok
    /\ IF pattern_name = "benchmark_error" THEN FALSE
       ELSE IF pattern_name \in {"suite_base_mean", "suite_peak_mean",
                                 "suite_base_energy", "suite_peak_energy"}
            THEN ~FloatOk(m.g1)
       ELSE ~FloatOk(m.g2)

\* benchmark_results after the body of "for match in matches" on one match
AfterMatch(br, pattern_name, m) ==
    IF pattern_name \in {"detailed_ratio", "detailed_time", "detailed_reference"}
    THEN PutField(br, BenchmarkKey(m.g1), MetricType(pattern_name), ParseFloat(m.g2))
    ELSE IF pattern_name \in {"detailed_copies", "detailed_threads"}
    THEN PutField(br, BenchmarkKey(m.g1), MetricType(pattern_name),
                  IntOf(ParseFloat(m.g2)))
    ELSE IF pattern_name \in {"benchmark_ratio", "benchmark_time", "benchmark_result"}
    THEN PutField(br, m.g1, MetricType(pattern_name), ParseFloat(m.g2))
    ELSE IF pattern_name = "benchmark_error"
    THEN IF HasRatio(br, m.g1) THEN PutField(br, m.g1, "warning", m.g2) ELSE br
    ELSE br

\* "for match in matches": benchmark_results after the matches of one
\* pattern, and whether a ValueError was raised on the way.
RECURSIVE AfterMatches(_, _, _)
AfterMatches(br, pattern_name, matches) ==
    IF matches = <<>> THEN [br |-> br, raised |-> FALSE]
    ELSE IF MatchRaises(pattern_name, Head(matches)) THEN [br |-> br, raised |-> TRUE]
    ELSE AfterMatches(AfterMatch(br, pattern_name, Head(matches)),
                      pattern_name, Tail(matches))

\* The number of lines of an RSF file.
MaxRsfLines == 2

\* The lines an RSF file is made of, each with one key and its value or
\* message.
RsfLines ==
    {"spec.cpu2017.results.648_exchange2_s.base.000.ratio: 12.380557",
     "spec.cpu2017.results.648_exchange2_s.peak.000.ratio: 13.5",
     "spec.cpu2017.results.648_exchange2_s.base.000.reported_sec: 237.469",
     "spec.cpu2017.results.648_exchange2_s.base.000.reference: 2940",
     "spec.cpu2017.results.648_exchange2_s.base.000.copies: 1",
     "spec.cpu2017.results.648_exchange2_s.base.000.threads: 8.0",
     "spec.cpu2017.results.648_exchange2_s.base.000.ratio: --",
     "spec.cpu2017.results.502_gcc_r.base.000.ratio: 0",
     "spec.cpu2017.results.999_bench.base.000.reported_sec: 10.5",
     "spec.cpu2017.results.999_bench.base.000.ratio: 1.2.3",
     "spec.cpu2017.519.lbm_r.base.ratio: 4.25",
     "spec.cpu2017.errors000: 648.exchange2_s (base) did not have enough runs!",
     "spec.cpu2017.errors001: 502.gcc_r (base) had invalid runs!",
     "spec.cpu2017.errors1: 999.bench (base; ref) message",
     "spec.cpu2017.basemean: 9.87"}

\* Lines of files in which a match runs over a line end or shares its line:
\* a key whose number stands on the next line, a line of two keys, an error
\* line that ends in blanks and one without a message.
RsfCrossLines ==
    {"spec.cpu2017.results.999_bench.base.000.ratio:",
     "12.5",
     "spec.cpu2017.results.648_exchange2_s.base.000.ratio: 1 spec.cpu2017.results.502_gcc_r.base.000.ratio: 2",
     "spec.cpu2017.errors2: 999.bench (base)  ",
     "spec.cpu2017.errors3: 648.exchange2_s (base)",
     "spec.cpu2017.basemean: 9.87"}

\* The files that are read.
RsfFiles ==
    SeqsUpTo(RsfLines, MaxRsfLines) \cup SeqsUpTo(RsfCrossLines, MaxRsfLines)

\* The path is resolved and the file opened and read; when it is not found,
\* or cannot be read, None is returned.
ReadFile ==
    /\ rpc = "open"
    /\ \E readable \in BOOLEAN :
          IF readable
          THEN /\ rpc' = "patterns"
               /\ rsf_phase' = 1
               /\ UNCHANGED rsf_result
          ELSE /\ rpc' = "returned"
               /\ rsf_result' = "None"
               /\ UNCHANGED rsf_phase
    /\ UNCHANGED <<content, benchmark_results, nameVars, liveVars, laterVars>>

\* One turn of "for pattern_name, pattern in patterns.items()". A ValueError
\* is caught by the function's except clause, which returns None.
ApplyPattern ==
    /\ rpc = "patterns"
    /\ rsf_phase <= Len(RsfPatterns)
    /\ LET after == AfterMatches(benchmark_results, RsfPatterns[rsf_phase],
                              findall(RsfPatterns[rsf_phase], content))
       IN  IF after.raised
           THEN /\ rpc' = "returned"
                /\ rsf_result' = "None"
                /\ UNCHANGED <<rsf_phase, benchmark_results>>
           ELSE /\ benchmark_results' = after.br
                /\ rsf_phase' = rsf_phase + 1
                /\ UNCHANGED <<rpc, rsf_result>>
    /\ UNCHANGED <<content, nameVars, liveVars, laterVars>>

\* return result_data
RsfReturn ==
    /\ rpc = "patterns"
    /\ rsf_phase > Len(RsfPatterns)
    /\ rpc' = "returned"
    /\ rsf_result' = "data"
    /\ UNCHANGED <<content, rsf_phase, benchmark_results, nameVars, liveVars, laterVars>>

RsfIdle ==
    /\ content = <<>>
    /\ rsf_phase = 0
    /\ benchmark_results = <<>>
    /\ rpc = "idle"
    /\ rsf_result = ""

RsfStart ==
    /\ content \in RsfFiles
    /\ rsf_phase = 0
    /\ benchmark_results = <<>>
    /\ rpc = "open"
    /\ rsf_result = ""

NextRsf == ReadFile \/ ApplyPattern \/ RsfReturn

-----------------------------------------------------------------------------
(* utils.py: build_runcpu_command *)

\* An optional argument: None, or a string or an integer.
NoneStr == [is_none |-> TRUE, value |-> ""]
SomeStr(v) == [is_none |-> FALSE, value |-> v]
NoneInt == [is_none |-> TRUE, value |-> 0]
SomeInt(n) == [is_none |-> FALSE, value |-> n]

\* str(n) of a non-negative integer
RECURSIVE IntToStr(_)
IntToStr(n) ==
    IF n < 10 THEN Ch("0123456789", n + 1)
    ELSE IntToStr(n \div 10) \o Ch("0123456789", (n % 10) + 1)

\* ---- pathlib.Path, as the paths of the program are built and written

\* sep.join(parts)
RECURSIVE Join(_, _)
Join(parts, sep) ==
    IF parts = <<>> THEN ""
    ELSE IF Len(parts) = 1 THEN parts[1]
    ELSE parts[1] \o sep \o Join(Tail(parts), sep)

\* The parts of Path(p) from the place i on: what stands between the
\* slashes, without the empty parts and the "." parts, which pathlib drops.
RECURSIVE PathParts(_, _)
PathParts(p, i) ==
    IF i > Len(p) THEN <<>>
    ELSE LET slash == FindIn("/", p, i, Len(p))
             e     == IF slash = 0 THEN Len(p) ELSE slash - 1
             rest  == PathParts(p, e + 2)
         IN  IF e < i \/ SubSeq(p, i, e) = "." THEN rest
             ELSE <<SubSeq(p, i, e)>> \o rest

\* The root of Path(p): "/" for a path that begins with one slash or with
\* three and more, "//" for exactly two, "" for a relative path.
Anchor(p) ==
    LET n == RunEnd(p, 1, {"/"})
    IN  IF n = 0 THEN "" ELSE IF n = 2 THEN "//" ELSE "/"

\* The root and the parts as str() writes them; "." when there are neither
PathStr(anchor, parts) ==
    IF parts = <<>> THEN (IF anchor = "" THEN "." ELSE anchor)
    ELSE anchor \o Join(parts, "/")

\* str(Path(p)): repeated slashes, "." parts and a slash at the end are gone
PurePath(p) == PathStr(Anchor(p), PathParts(p, 1))

\* str(Path(p).parent): the path without its last part; the root and "." are
\* their own parents
Parent(p) ==
    LET parts == PathParts(p, 1)
    IN  IF parts = <<>> THEN PathStr(Anchor(p), parts)
        ELSE PathStr(Anchor(p), SubSeq(parts, 1, Len(parts) - 1))

\* Path(p).name: the last part, "" for the root and for "."
PathName(p) ==
    LET parts == PathParts(p, 1)
    IN  IF parts = <<>> THEN "" ELSE parts[Len(parts)]

\* str(Path(base) / rel) for a relative rel without "." parts
PathJoin(base, rel) ==
    LET b == PurePath(base)
    IN  IF b = "." THEN rel
        ELSE IF EndsWith(b, "/") THEN b \o rel
        ELSE b \o "/" \o rel

\* spec_root: None, or a directory with or without bin/runcpu in it. The
\* value is what str(spec_root) gives.
NoRoot == [is_none |-> TRUE, value |-> "", has_runcpu |-> FALSE]
Root(path, has_runcpu) == [is_none |-> FALSE, value |-> path, has_runcpu |-> has_runcpu]

\* if spec_root: ... raise typer.Exit(1) when bin/runcpu does not exist
RuncpuMissing(spec_root) == ~spec_root.is_none /\ ~spec_root.has_runcpu

\* runcpu_path = spec_root / "bin" / "runcpu"; cmd = [str(runcpu_path)], or
\* ["runcpu"] when runcpu is taken from PATH
BaseCommand(spec_root) ==
    IF spec_root.is_none THEN <<"runcpu">>
    ELSE <<PathJoin(spec_root.value, "bin/runcpu")>>

\* --update, or --action and --config
ActionTokens(action, config) ==
    IF action = "update" THEN <<"--update">>
    ELSE <<"--action", action, "--config", config>>

\* if copies is not None: cmd.extend([flag, str(copies)])
IntOption(flag, v) == IF v.is_none THEN <<>> ELSE <<flag, IntToStr(v.value)>>

\* if tune: cmd.extend([flag, tune]): None and "" add nothing
StrOption(flag, v) == IF Truthy(v) THEN <<flag, v.value>> ELSE <<>>

\* if reportable: ... elif noreportable: ...
ReportableTokens(reportable, noreportable) ==
    IF reportable THEN <<"--reportable">>
    ELSE IF noreportable THEN <<"--noreportable">>
    ELSE <<>>

\* The output format branch with "all" compared as it is written.
OutputFormatTokens_CaseSensitive(output_formats) ==
    IF ~output_formats.is_none
    THEN IF output_formats.value = "all" THEN <<>>
         ELSE <<"--output_format", output_formats.value>>
    ELSE <<"--output_format", "rsf,pdf">>

\* The output format: nothing for "all", the value given, or rsf,pdf
OutputFormatTokens(output_formats) ==
    IF ~output_formats.is_none
    THEN IF Lower(output_formats.value) = "all" THEN <<>>
         ELSE <<"--output_format", output_formats.value>>
    ELSE <<"--output_format", "rsf,pdf">>

VerboseTokens(verbose) == IF verbose THEN <<"--verbose=5">> ELSE <<>>

\* The options with the verbosity in front of the output format.
OptionTokens_VerboseFirst(a) ==
    StrOption("--tune", a.tune)
        \o StrOption("--size", a.size)
        \o IntOption("--copies", a.copies)
        \o IntOption("--threads", a.threads)
        \o IntOption("--iterations", a.iterations)
        \o ReportableTokens(a.reportable, a.noreportable)
        \o VerboseTokens(a.verbose)
        \o OutputFormatTokens(a.output_formats)
        \o (IF a.rebuild THEN <<"--rebuild">> ELSE <<>>)
        \o IntOption("--parallel_test", a.parallel_test)
        \o (IF a.ignore_errors THEN <<"--ignore_errors">> ELSE <<>>)

\* The options between the action and the benchmarks, in the order of the
\* statements. They are added for every action, update included.
OptionTokens(a) ==
    StrOption("--tune", a.tune)
        \o StrOption("--size", a.size)
        \o IntOption("--copies", a.copies)
        \o IntOption("--threads", a.threads)
        \o IntOption("--iterations", a.iterations)
        \o ReportableTokens(a.reportable, a.noreportable)
        \o OutputFormatTokens(a.output_formats)
        \o VerboseTokens(a.verbose)
        \o (IF a.rebuild THEN <<"--rebuild">> ELSE <<>>)
        \o IntOption("--parallel_test", a.parallel_test)
        \o (IF a.ignore_errors THEN <<"--ignore_errors">> ELSE <<>>)

\* if action != "update": cmd.extend(benchmarks)
BenchmarkTokens(action, bs) == IF action = "update" THEN <<>> ELSE bs

\* The list build_runcpu_command returns when it returns.
build_runcpu_command(a) ==
    BaseCommand(a.spec_root)
        \o ActionTokens(a.action, a.config)
        \o OptionTokens(a)
        \o BenchmarkTokens(a.action, a.benchmarks)

\* cli.py: cmd.append("--verbose")
CliVerboseTokens(verbose) == IF verbose THEN <<"--verbose">> ELSE <<>>

\* cli.py: the options of _build_runcpu_command, in the order of the
\* statements. It has no output_formats argument and adds no
\* --output_format.
CliOptionTokens(a) ==
    StrOption("--tune", a.tune)
        \o StrOption("--size", a.size)
        \o IntOption("--copies", a.copies)
        \o IntOption("--threads", a.threads)
        \o IntOption("--iterations", a.iterations)
        \o ReportableTokens(a.reportable, a.noreportable)
        \o CliVerboseTokens(a.verbose)
        \o (IF a.rebuild THEN <<"--rebuild">> ELSE <<>>)
        \o IntOption("--parallel_test", a.parallel_test)
        \o (IF a.ignore_errors THEN <<"--ignore_errors">> ELSE <<>>)

\* cli.py: the list _build_runcpu_command returns when it returns. The
\* path of runcpu, the action and the benchmarks are as in utils.py.
_build_runcpu_command(a) ==
    BaseCommand(a.spec_root)
        \o ActionTokens(a.action, a.config)
        \o CliOptionTokens(a)
        \o BenchmarkTokens(a.action, a.benchmarks)

\* The roots of the calls: none and an installation; an installation
\* without bin/runcpu, the root directory and the working directory
\* (--spec-root ., which validate_and_get_spec_root passes on as it is given).
BuildRoots == {NoRoot, Root("/opt/spec2017", TRUE)}

OtherRoots == {Root("/opt/spec2017", FALSE), Root("/", TRUE), Root(".", TRUE)}

\* The calls under some roots: the actions of the commands, benchmark lists
\* in an order that is not the alphabetical one, and every optional
\* argument absent and given; the integer options and the flags after the
\* verbosity only when every is set.
BuildArgsOn(roots, every) ==
    [action : {"update", "build", "run"},
     benchmarks : {<<>>, <<"519.lbm_r", "502.gcc_r">>},
     config : {"myconfig.cfg"},
     tune : {NoneStr, SomeStr("base")},
     spec_root : roots,
     verbose : BOOLEAN,
     rebuild : IF every THEN BOOLEAN ELSE {FALSE},
     parallel_test : IF every THEN {NoneInt, SomeInt(16)} ELSE {NoneInt},
     ignore_errors : IF every THEN BOOLEAN ELSE {FALSE},
     size : {NoneStr, SomeStr("ref")},
     copies : IF every THEN {NoneInt, SomeInt(0)} ELSE {NoneInt},
     threads : IF every THEN {NoneInt, SomeInt(8)} ELSE {NoneInt},
     iterations : IF every THEN {NoneInt, SomeInt(3)} ELSE {NoneInt},
     reportable : BOOLEAN,
     noreportable : BOOLEAN,
     output_formats : {NoneStr, SomeStr("all"), SomeStr("ALL"), SomeStr("rsf"), SomeStr("")}]

\* The calls looked at: every combination of the arguments without a root
\* and under the installation; under the other roots, which only decide
\* the first token and the exit, fewer.
BuildArgs == BuildArgsOn(BuildRoots, TRUE) \cup BuildArgsOn(OtherRoots, FALSE)

\* The arguments of the update command: update.py passes nothing but the
\* action, the root and the verbosity; the others are at their defaults.
DefaultArgs ==
    [action |-> "update", benchmarks |-> <<>>, config |-> "", tune |-> NoneStr,
     spec_root |-> NoRoot, verbose |-> FALSE, rebuild |-> FALSE,
     parallel_test |-> NoneInt, ignore_errors |-> FALSE, size |-> NoneStr,
     copies |-> NoneInt, threads |-> NoneInt, iterations |-> NoneInt,
     reportable |-> FALSE, noreportable |-> FALSE, output_formats |-> NoneStr]

\* One call of build_runcpu_command.
BuildCommand ==
    /\ bpc = "call"
    /\ \E a \in BuildArgs :
          /\ bargs' = a
          /\ IF RuncpuMissing(a.spec_root)
             THEN /\ bpc' = "exit"
                  /\ UNCHANGED cmd
             ELSE /\ bpc' = "returned"
                  /\ cmd' = build_runcpu_command(a)
    /\ UNCHANGED <<affVars, nameVars, liveVars, rsfVars, genVars, invVars>>

\* The calls of cli.py's builder: those of BuildArgs, output_formats left
\* at None, which the function does not have.
CliBuildArgs == {a \in BuildArgs : a.output_formats = NoneStr}

\* One call of cli.py's _build_runcpu_command.
CliBuildCommand ==
    /\ bpc = "call"
    /\ \E a \in CliBuildArgs :
          /\ bargs' = a
          /\ IF RuncpuMissing(a.spec_root)
             THEN /\ bpc' = "cli_exit"
                  /\ UNCHANGED cmd
             ELSE /\ bpc' = "cli_returned"
                  /\ cmd' = _build_runcpu_command(a)
    /\ UNCHANGED <<affVars, nameVars, liveVars, rsfVars, genVars, invVars>>

NextBuild == BuildCommand \/ CliBuildCommand

-----------------------------------------------------------------------------
(* utils.py: build_affinity_command *)

\* Optional[bool]
NoneBool == [is_none |-> TRUE, value |-> FALSE]
SomeBool(b) == [is_none |-> FALSE, value |-> b]

\* numa_node as a truth value: neither None nor 0
NodeTruthy(v) == ~v.is_none /\ v.value # 0

\* subprocess.run([tool, "--version"], capture_output=True, check=True)
\* passes: the tool is there ("ok"), not FileNotFoundError ("missing") and
\* not CalledProcessError ("fails").
Available(tool) == tool = "ok"

\* if numa_node is not None: --cpunodebind, and --membind when numa_memory is
\* None or true
NodeBinding(numa_node, numa_memory) ==
    IF numa_node.is_none THEN <<>>
    ELSE <<"--cpunodebind", IntToStr(numa_node.value)>>
         \o (IF numa_memory.is_none \/ numa_memory.value
             THEN <<"--membind", IntToStr(numa_node.value)>> ELSE <<>>)

\* if cpu_cores: --physcpubind
CoreBinding(cpu_cores) ==
    IF Truthy(cpu_cores) THEN <<"--physcpubind", cpu_cores.value>> ELSE <<>>

build_affinity_command(a) ==
    IF ~NodeTruthy(a.numa_node) /\ ~Truthy(a.cpu_cores) THEN a.base_cmd
    ELSE IF Available(a.numactl)
    THEN <<"numactl">> \o NodeBinding(a.numa_node, a.numa_memory)
         \o CoreBinding(a.cpu_cores) \o <<"--">> \o a.base_cmd
    ELSE IF Truthy(a.cpu_cores)
    THEN IF Available(a.taskset)
         THEN <<"taskset", "-c", a.cpu_cores.value>> \o a.base_cmd
         ELSE a.base_cmd
    ELSE a.base_cmd

\* The calls looked at: two commands, no node and the nodes 0, 1 and 12, no
\* cores, the empty string and two core lists, the three values of
\* numa_memory, and the two tools there, missing or failing.
AffinityArgs ==
    [base_cmd : {<<"runcpu", "--action", "run", "--config", "my.cfg">>,
                 <<"/opt/spec2017/bin/runcpu", "--update">>},
     numa_node : {NoneInt, SomeInt(0), SomeInt(1), SomeInt(12)},
     cpu_cores : {NoneStr, SomeStr(""), SomeStr("0-3"), SomeStr("0,2,4")},
     numa_memory : {NoneBool, SomeBool(TRUE), SomeBool(FALSE)},
     numactl : {"ok", "missing", "fails"},
     taskset : {"ok", "missing", "fails"}]

AffinityArgsIdle ==
    [base_cmd |-> <<>>, numa_node |-> NoneInt, cpu_cores |-> NoneStr,
     numa_memory |-> NoneBool, numactl |-> "missing", taskset |-> "missing"]

\* One call of build_affinity_command.
BuildAffinity ==
    /\ apc = "call"
    /\ \E a \in AffinityArgs :
          /\ aargs' = a
          /\ acmd' = build_affinity_command(a)
    /\ apc' = "returned"
    /\ UNCHANGED <<bargs, cmd, bpc, nameVars, liveVars, rsfVars, genVars, invVars>>

AffinityIdle ==
    /\ aargs = AffinityArgsIdle
    /\ acmd = <<>>
    /\ apc = "idle"

AffinityStart ==
    /\ aargs = AffinityArgsIdle
    /\ acmd = <<>>
    /\ apc = "call"

NextAffinity == BuildAffinity

RuncpuIdle ==
    /\ bargs = DefaultArgs
    /\ cmd = <<>>
    /\ bpc = "idle"

BuildIdle == RuncpuIdle /\ AffinityIdle

BuildStart ==
    /\ bargs = DefaultArgs
    /\ cmd = <<>>
    /\ bpc = "call"
    /\ AffinityIdle

-----------------------------------------------------------------------------
(* utils.py: the probes of the installation that config generation uses *)

\* The outcome of one subprocess.run: it timed out, or it ended with a
\* return code and a standard output.
TimedOut == [status |-> "timeout", stdout |-> ""]
Failed == [status |-> "failed", stdout |-> ""]
Ran(out) == [status |-> "ok", stdout |-> out]

\* What a probe gives its caller: a value, or an exception that it lets
\* through.
Raised == [raised |-> TRUE, value |-> ""]
Returned(v) == [raised |-> FALSE, value |-> v]

\* re.search(r"gcc.*?(\d+)\.(\d+)\.(\d+)", s, re.IGNORECASE) on one line:
\* whether \d+\.\d+\.\d+ matches at p
VersionAt(s, p) ==
    /\ p <= Len(s) /\ IsDigit(Ch(s, p))
    /\ LET e1 == RunEnd(s, p, Digits)
           e2 == RunEnd(s, e1 + 2, Digits)
       IN  /\ e1 + 2 <= Len(s) /\ Ch(s, e1 + 1) = "." /\ IsDigit(Ch(s, e1 + 2))
           /\ e2 + 2 <= Len(s) /\ Ch(s, e2 + 1) = "." /\ IsDigit(Ch(s, e2 + 2))

\* int(match.group(1)) of that search, None when it finds nothing
GccMajor(s) ==
    LET g == Find("gcc", Lower(s))
        P == {p \in (g + 3)..Len(s) : VersionAt(s, p)}
    IN  IF g = 0 \/ P = {} THEN NoneInt
        ELSE SomeInt(DigitsValue(SubSeq(s, Min(P), RunEnd(s, Min(P), Digits)), 0))

\* detect_gcc_version(): neither subprocess.run is inside a try
detect_gcc_version(m) ==
    IF m.which_gcc.status = "timeout" THEN [raised |-> TRUE, value |-> NoneInt]
    ELSE IF m.which_gcc.status # "ok" THEN [raised |-> FALSE, value |-> NoneInt]
    ELSE IF m.gcc_version.status = "timeout" THEN [raised |-> TRUE, value |-> NoneInt]
    ELSE IF m.gcc_version.status # "ok" THEN [raised |-> FALSE, value |-> NoneInt]
    ELSE [raised |-> FALSE, value |-> GccMajor(Strip(m.gcc_version.stdout))]

\* detect_gcc_path(): "" stands for None
detect_gcc_path(m) ==
    IF m.which_gcc.status = "timeout" THEN Raised
    ELSE IF m.which_gcc.status # "ok" THEN Returned("")
    ELSE IF Strip(m.which_gcc.stdout) = "" THEN Returned("")
    ELSE Returned(Parent(Parent(Strip(m.which_gcc.stdout))))

\* The loops of detect_intel_oneapi_path that climb from a directory: at most
\* n directories are looked at, the root never is. "" when none is a oneAPI
\* root.
RECURSIVE OneapiAbove(_, _, _)
OneapiAbove(fs, current_path, n) ==
    IF n = 0 THEN ""
    ELSE IF /\ PathName(current_path) = "oneapi"
            /\ PathJoin(current_path, "setvars.sh") \in fs
    THEN PurePath(current_path)
    ELSE IF Parent(current_path) = Parent(Parent(current_path)) THEN ""
    ELSE OneapiAbove(fs, Parent(current_path), n - 1)

\* The first of the directories of dirs from which a oneAPI root is found.
RECURSIVE FirstOneapi(_, _)
FirstOneapi(fs, dirs) ==
    IF dirs = <<>> THEN ""
    ELSE IF OneapiAbove(fs, Head(dirs), 5) # "" THEN OneapiAbove(fs, Head(dirs), 5)
    ELSE FirstOneapi(fs, Tail(dirs))

\* detect_intel_oneapi_path(): "" stands for None. A timeout of 'which icx'
\* is caught and the other strategies are tried.
detect_intel_oneapi_path(m) ==
    LET icx == Strip(m.which_icx.stdout)
        s1  == IF m.which_icx.status = "ok" /\ icx # ""
               THEN OneapiAbove(m.fs, Parent(icx), 6) ELSE ""
        s2  == IF m.oneapi_root # "" /\ PurePath(m.oneapi_root) \in m.fs
                  /\ PathJoin(m.oneapi_root, "setvars.sh") \in m.fs
               THEN PurePath(m.oneapi_root) ELSE ""
        common == <<"/opt/intel/oneapi", "/intel/oneapi",
                    PathJoin(m.home, "intel/oneapi")>>
        C   == {i \in 1..3 : common[i] \in m.fs /\ (common[i] \o "/setvars.sh") \in m.fs}
        intel_paths == SelectSeq(m.path, LAMBDA p :
                           Contains("intel", Lower(p)) \/ Contains("oneapi", Lower(p)))
    IN  IF s1 # "" THEN s1
        ELSE IF s2 # "" THEN s2
        ELSE IF C # {} THEN common[Min(C)]
        ELSE FirstOneapi(m.fs, intel_paths)

\* The keys setup_intel_oneapi_environment keeps of the environment that
\* sourcing setvars.sh prints.
IntelPrefixes ==
    {"intel", "oneapi", "mklroot", "tbbroot", "daalroot", "ipproot", "cpath",
     "library_path", "ld_library_path", "path"}

\* setup_intel_oneapi_environment(oneapi_path): the keys of the dictionary
\* returned. A timeout is caught and gives the empty dictionary.
setup_intel_oneapi_environment(m, oneapi_path) ==
    IF PathJoin(oneapi_path, "setvars.sh") \notin m.fs THEN {}
    ELSE IF m.setvars.status # "ok" THEN {}
    ELSE {k \in m.setvars.keys : \E x \in IntelPrefixes : Contains(x, Lower(k))}

\* validate_intel_oneapi_setup(): icx and icpx have to be found, executable
\* and answer --version; ifx is optional. A timeout counts as a failure.
validate_intel_oneapi_setup(m) ==
    /\ m.compilers["icx"] = "working"
    /\ m.compilers["icpx"] = "working"

-----------------------------------------------------------------------------
(* utils.py: generate_intel_config_additions *)

\* The two candidate directories of every version directory of compiler/
\* other than latest, in the order of iterdir().
RECURSIVE VersionDirs(_, _)
VersionDirs(compiler_dir, versions) ==
    IF versions = <<>> THEN <<>>
    ELSE (IF Head(versions) = "latest" THEN <<>>
          ELSE <<compiler_dir \o "/" \o Head(versions),
                 compiler_dir \o "/" \o Head(versions) \o "/linux">>)
         \o VersionDirs(compiler_dir, Tail(versions))

\* compiler_base_path.parent: the directory whose bin/ holds icx, the first
\* of the candidates that does, compiler/latest when none does.
CompilerBase(m, oneapi_path) ==
    LET compiler_dir == PathJoin(oneapi_path, "compiler")
        possible == <<compiler_dir \o "/latest", compiler_dir \o "/latest/linux">>
                    \o (IF compiler_dir \in m.fs
                        THEN VersionDirs(compiler_dir, m.versions) ELSE <<>>)
        F == {i \in 1..Len(possible) : (possible[i] \o "/bin/icx") \in m.fs}
    IN  IF F = {} THEN compiler_dir \o "/latest" ELSE possible[Min(F)]

\* A compiler by its full path when the file exists, else by fallback.
CompilerAt(m, base, compiler, fallback) ==
    IF (base \o "/bin/" \o compiler) \in m.fs
    THEN base \o "/bin/" \o compiler ELSE fallback

\* ldflags and cppflags: the candidate directories that exist, each behind
\* its option
IntelFlags(m, option, candidates) ==
    LET kept == SelectSeq(candidates, LAMBDA p : PurePath(p) \in m.fs)
    IN  Join([i \in 1..Len(kept) |-> option \o kept[i]], " ")

LibCandidates(oneapi_path, base) ==
    <<oneapi_path \o "/compiler/latest/lib",
      oneapi_path \o "/compiler/latest/linux/lib",
      oneapi_path \o "/compiler/latest/linux/lib/x64",
      oneapi_path \o "/mkl/latest/lib/intel64",
      oneapi_path \o "/tbb/latest/lib/intel64/gcc4.8",
      base \o "/lib", base \o "/lib/x64">>

IncludeCandidates(oneapi_path, base) ==
    <<oneapi_path \o "/compiler/latest/include",
      oneapi_path \o "/compiler/latest/linux/include",
      oneapi_path \o "/mkl/latest/include",
      oneapi_path \o "/tbb/latest/include",
      base \o "/include">>

IntelCommonFlags ==
    "-w -m64 -Wl,-z,muldefs -xHost -Ofast -ffast-math -flto -mfpmath=sse -funroll-loops -qopt-mem-layout-trans=4"

\* base_configs of one suite: the compilers and their flags, the Fortran
\* pair when ifx is installed (fc # ""), the paths when there are any
BaseConfigs(suite, cc, cxx, fc, ldflags, cppflags) ==
    <<suite \o "=base:CC=" \o cc,
      suite \o "=base:CXX=" \o cxx,
      suite \o "=base:OPTIMIZE=" \o IntelCommonFlags \o " -mprefer-vector-width=512",
      suite \o "=base:COPTIMIZE=-w -std=c11 -m64 -Wl,-z,muldefs -xHost -Ofast -ffast-math -flto -mfpmath=sse -funroll-loops -qopt-mem-layout-trans=4 -Wno-implicit-int -mprefer-vector-width=512",
      suite \o "=base:CXXOPTIMIZE=-w -std=c++14 -m64 -Wl,-z,muldefs -xHost -Ofast -ffast-math -flto -mfpmath=sse -funroll-loops -qopt-mem-layout-trans=4 -mprefer-vector-width=512">>
    \o (IF fc # ""
        THEN <<suite \o "=base:FC=" \o fc,
               suite \o "=base:FOPTIMIZE=" \o IntelCommonFlags
                     \o " -nostandard-realloc-lhs -align array32byte -auto">>
        ELSE <<>>)
    \o (IF ldflags # "" THEN <<suite \o "=base:LDFLAGS=" \o ldflags>> ELSE <<>>)
    \o (IF cppflags # "" THEN <<suite \o "=base:CPPFLAGS=" \o cppflags>> ELSE <<>>)

suites == <<"intrate", "intspeed", "fprate", "fpspeed">>

\* The suites the entries are made for, were there no restriction.
fp_suites_Unrestricted == suites

\* fp_suites: the floating-point suites only
fp_suites == SelectSeq(suites, LAMBDA suite : suite \in {"fprate", "fpspeed"})

\* The entries of the suites of ss, in order: the base entries of a suite and
\* then its peak entry.
RECURSIVE SuiteEntries(_, _, _, _)
SuiteEntries(m, oneapi_path, base, ss) ==
    IF ss = <<>> THEN <<>>
    ELSE BaseConfigs(Head(ss),
                     CompilerAt(m, base, "icx", "icx"),
                     CompilerAt(m, base, "icpx", "icpx"),
                     CompilerAt(m, base, "ifx", ""),
                     IntelFlags(m, "-L", LibCandidates(oneapi_path, base)),
                     IntelFlags(m, "-I", IncludeCandidates(oneapi_path, base)))
         \o <<Head(ss) \o "=peak: basepeak = yes">>
         \o SuiteEntries(m, oneapi_path, base, Tail(ss))

\* generate_intel_config_additions(oneapi_path). Its own call of
\* setup_intel_oneapi_environment changes nothing: the value is dropped.
generate_intel_config_additions(m, oneapi_path) ==
    SuiteEntries(m, oneapi_path, CompilerBase(m, oneapi_path), fp_suites)

-----------------------------------------------------------------------------
(* utils.py: generate_config_from_template *)

\* A text is the sequence of its lines, text.split("\n"): a text that ends
\* with a newline has "" as its last line. None of the texts the generator
\* looks for holds a newline, so a replacement works line by line.

\* line.replace(old, "\n".join(new)), as the lines it leaves: every
\* occurrence from the left, the text put in not searched again
RECURSIVE ReplaceLine(_, _, _)
ReplaceLine(line, old, new) ==
    LET p == Find(old, line)
    IN  IF p = 0 THEN <<line>>
        ELSE LET rest == ReplaceLine(SubSeq(line, p + Len(old), Len(line)), old, new)
                 n    == Len(new)
             IN  IF n = 1
                 THEN <<SubSeq(line, 1, p - 1) \o new[1] \o Head(rest)>> \o Tail(rest)
                 ELSE <<SubSeq(line, 1, p - 1) \o new[1]>>
                      \o SubSeq(new, 2, n - 1)
                      \o <<new[n] \o Head(rest)>> \o Tail(rest)

\* text.replace(old, new)
RECURSIVE Replace(_, _, _)
Replace(text, old, new) ==
    IF text = <<>> THEN <<>>
    ELSE ReplaceLine(Head(text), old, new) \o Replace(Tail(text), old, new)

\* The index of the first line at or after i that holds sub, 0 when none
\* does: the line of text.find(sub).
RECURSIVE FirstLine(_, _, _)
FirstLine(text, sub, i) ==
    IF i > Len(text) THEN 0
    ELSE IF Contains(sub, text[i]) THEN i
    ELSE FirstLine(text, sub, i + 1)

\* text.replace(old, new, 1) for a new without a newline
ReplaceOnce(text, old, new) ==
    LET i == FirstLine(text, old, 1)
    IN  IF i = 0 THEN text
        ELSE LET p == Find(old, text[i])
             IN  [text EXCEPT ![i] = SubSeq(text[i], 1, p - 1) \o new
                                     \o SubSeq(text[i], p + Len(old), Len(text[i]))]

\* The lines of the template that the generator rewrites.
LabelLine(label) ==
    "%   define label \"" \o label \o "\"           # (2)      Use a label meaningful to *you*."

GCCge10Line == "%define GCCge10  # EDIT: remove the '#' from column 1 if using GCC 10 or later"

GccDirLine(gcc_dir) == "%   define  gcc_dir        \"" \o gcc_dir \o "\"  # EDIT (see above)"

TuneLine(tune_value) ==
    "tune                 = " \o tune_value \o "  # EDIT if needed: set to \"base\" for old GCC."

CopiesLine(copies) ==
    "   copies           = " \o copies \o "   # EDIT to change number of copies (see above)"

TemplatePath(spec_path) == PathJoin(spec_path, "config/Example-gcc-linux-x86.cfg")

\* spec_path: the root given, else the environment's SPEC_PATH ("" for None)
SpecPath(a, m) == IF a.spec_root # "" THEN a.spec_root ELSE m.spec_path

\* Whether the oneAPI toolchain found at oneapi_path may be used: the
\* environment of setvars.sh holds PATH and the compilers answer under it.
IntelUsable_WithoutValidation(m, oneapi_path) ==
    "PATH" \in setup_intel_oneapi_environment(m, oneapi_path)

IntelUsable(m, oneapi_path) ==
    /\ "PATH" \in setup_intel_oneapi_environment(m, oneapi_path)
    /\ validate_intel_oneapi_setup(m)

tune_mapping == ("base" :> "base") @@ ("peak" :> "peak") @@ ("all" :> "base,peak")

\* The value of tune put into the line as it is.
TuneValue_Verbatim(tune) == tune

\* tune_mapping.get(tune, tune)
TuneValue(tune) == IF tune \in DOMAIN tune_mapping THEN tune_mapping[tune] ELSE tune

\* The tune step
SetTune(text, tune) ==
    IF tune.is_none THEN text
    ELSE Replace(text, TuneLine("base,peak"),
                 <<TuneLine(TuneValue(tune.value)) \o " (auto-set)">>)

\* f"{key:<15}"
RECURSIVE PadRight(_, _)
PadRight(s, width) == IF Len(s) >= width THEN s ELSE PadRight(s \o " ", width)

insertion_patterns ==
    <<"intrate=base:", "intspeed=base:", "fprate=base:", "fpspeed=base:",
      "intrate,fprate=base:", "intspeed,fpspeed=base:">>

\* The index of the first pattern at or after j that the text holds, 0 when
\* it holds none: the loop over insertion_patterns up to its break.
RECURSIVE FirstPattern(_, _)
FirstPattern(text, j) ==
    IF j > Len(insertion_patterns) THEN 0
    ELSE IF FirstLine(text, insertion_patterns[j], 1) # 0 THEN j
    ELSE FirstPattern(text, j + 1)

\* One pass of the loop over config_add: an entry without ":" or without "="
\* after it is skipped.
ApplyAddition(text, addition) ==
    LET colon == Find(":", addition)
        config_part == SubSeq(addition, colon + 1, Len(addition))
        eq == Find("=", config_part)
        section_header == Strip(SubSeq(addition, 1, colon - 1)) \o ":"
        config_line == "      " \o PadRight(Strip(SubSeq(config_part, 1, eq - 1)), 15)
                       \o " = " \o Strip(SubSeq(config_part, eq + 1, Len(config_part)))
        h == FirstLine(text, section_header, 1)
        j == FirstPattern(text, 1)
    IN  IF colon = 0 \/ eq = 0 THEN text
        ELSE IF h # 0
        THEN IF h = Len(text) THEN text
             ELSE SubSeq(text, 1, h) \o <<config_line>>
                  \o SubSeq(text, h + 1, Len(text))
        ELSE IF j # 0
        THEN Replace(text, insertion_patterns[j],
                     <<section_header, config_line, "", insertion_patterns[j]>>)
        ELSE text \o <<"", section_header, config_line, "">>

\* The loop left at the first entry that changes nothing.
RECURSIVE ApplyAdditions_StopAtMalformed(_, _)
ApplyAdditions_StopAtMalformed(text, additions) ==
    IF additions = <<>> THEN text
    ELSE IF ApplyAddition(text, Head(additions)) = text THEN text
    ELSE ApplyAdditions_StopAtMalformed(ApplyAddition(text, Head(additions)),
                                        Tail(additions))

\* The loop over config_add
RECURSIVE ApplyAdditions(_, _)
ApplyAdditions(text, additions) ==
    IF additions = <<>> THEN text
    ELSE ApplyAdditions(ApplyAddition(text, Head(additions)), Tail(additions))

\* The copies step: cores, else os.cpu_count() or 4
SetCopies(text, cores, cpu_count) ==
    Replace(text, CopiesLine("1"),
            <<CopiesLine(IntToStr(IF ~cores.is_none THEN cores.value
                                  ELSE IF ~cpu_count.is_none /\ cpu_count.value # 0
                                       THEN cpu_count.value ELSE 4))>>)

\* The name NamedTemporaryFile gives the n-th file: a new name each time.
TempName(n) == "/tmp/specer_generated_" \o IntToStr(n) \o ".cfg"

\* How many times the caller generates.
MaxCalls == 2

\* The template of a SPEC installation: the lines the generator rewrites and
\* the section headers around them; and a file that has none of them.
ExampleTemplate ==
    <<LabelLine("mytest"), "#" \o GCCge10Line,
      GccDirLine("/opt/rh/devtoolset-9/root/usr"), TuneLine("base,peak"),
      "intrate,fprate:", CopiesLine("1"), "default=base:",
      "intrate,intspeed=base:", "">>

BareTemplate == <<"# an empty config", "">>

\* A file that holds the lines of SPEC's template twice.
TwiceTemplate == SubSeq(ExampleTemplate, 1, 8) \o ExampleTemplate

SpecRoot == "/opt/spec2017"
OneapiRoot == "/opt/intel/oneapi"

\* A machine with SPEC installed, GCC 11 in /usr and no Intel toolchain.
Workstation ==
    [spec_path |-> "", fs |-> {TemplatePath(SpecRoot)},
     template |-> [readable |-> TRUE, text |-> ExampleTemplate],
     which_gcc |-> Ran("/usr/bin/gcc"), gcc_version |-> Ran("gcc (GCC) 11.2.0"),
     which_icx |-> Failed, oneapi_root |-> "", home |-> "/root",
     path |-> <<"/usr/bin">>, setvars |-> [status |-> "failed", keys |-> {}],
     compilers |-> [c \in {"icx", "icpx", "ifx"} |-> "missing"],
     versions |-> <<>>, cpu_count |-> SomeInt(8), tmp |-> "ok"]

\* The same with oneAPI under root: setvars.sh, and what it sets.
WithOneapi(m, root, files) ==
    [m EXCEPT !.fs = @ \cup {root, root \o "/setvars.sh", root \o "/compiler"}
                       \cup {root \o f : f \in files},
              !.setvars = [status |-> "ok", keys |-> {"PATH", "ONEAPI_ROOT", "HOME"}],
              !.compilers = [c \in {"icx", "icpx", "ifx"} |-> "working"]]

IntelMachine ==
    [WithOneapi(Workstation, OneapiRoot,
                {"/compiler/latest/bin/icx", "/compiler/latest/bin/icpx",
                 "/compiler/latest/bin/ifx", "/compiler/latest/lib",
                 "/compiler/latest/include", "/mkl/latest/include"})
     EXCEPT !.which_icx = Ran(OneapiRoot \o "/compiler/latest/bin/icx")]

Machines ==
    {Workstation, IntelMachine,
     \* SPEC_PATH, written with a slash at its end
     [Workstation EXCEPT !.spec_path = SpecRoot \o "/"],
     [Workstation EXCEPT !.fs = {}],
     [Workstation EXCEPT !.template.readable = FALSE],
     [Workstation EXCEPT !.template.text = BareTemplate],
     [Workstation EXCEPT !.template.text = TwiceTemplate],
     [Workstation EXCEPT !.which_gcc = Ran("/opt/gcc-9/bin/gcc"),
          !.gcc_version = Ran("gcc (Ubuntu 9.4.0-1ubuntu1~20.04.1) 9.4.0")],
     [Workstation EXCEPT !.which_gcc = Failed],
     [Workstation EXCEPT !.which_gcc = TimedOut],
     [Workstation EXCEPT !.gcc_version = TimedOut],
     [Workstation EXCEPT !.gcc_version = Ran("cc (clang) 14")],
     [Workstation EXCEPT !.cpu_count = NoneInt],
     [Workstation EXCEPT !.tmp = "unwritable"],
     [Workstation EXCEPT !.tmp = "full"],
     \* oneAPI found in a common place, icx in a version directory, no ifx
     [WithOneapi(Workstation, OneapiRoot,
                 {"/compiler/2024.0/linux/bin/icx", "/compiler/2024.0/linux/bin/icpx"})
      EXCEPT !.versions = <<"latest", "2024.0">>,
             !.compilers = [c \in {"icx", "icpx", "ifx"} |->
                               IF c = "ifx" THEN "missing" ELSE "working"]],
     \* found through ONEAPI_ROOT while 'which icx' times out
     [WithOneapi(Workstation, "/sw/oneapi", {"/compiler/latest/bin/icx"})
      EXCEPT !.which_icx = TimedOut, !.oneapi_root = "/sw/oneapi/"],
     \* found through a directory of PATH
     [WithOneapi(Workstation, "/sw/intel/oneapi", {})
      EXCEPT !.path = <<"/usr/bin", "/sw/intel/oneapi/compiler/latest/bin/">>],
     \* setvars.sh does not set PATH, fails, or times out
     [IntelMachine EXCEPT !.setvars.keys = {"ONEAPI_ROOT", "CPATH"}],
     [IntelMachine EXCEPT !.setvars.status = "failed"],
     [IntelMachine EXCEPT !.setvars.status = "timeout"],
     \* a compiler that is not there, or does not answer in time
     [IntelMachine EXCEPT !.compilers["icpx"] = "missing"],
     [IntelMachine EXCEPT !.compilers["icx"] = "timeout"]}

GenArgs ==
    [cores : {NoneInt, SomeInt(16)},
     spec_root : {"", SpecRoot},
     tune : {NoneStr, SomeStr("base"), SomeStr("peak"), SomeStr("all"), SomeStr("O3")},
     config_add : {<<>>, <<"default=base:OPTIMIZE=-O2">>,
                   <<"no separator", "mysection: key =value">>,
                   <<"default=base:OPTIMIZE=-O2", "default=base:no equals",
                     "intrate=peak:OPTIMIZE=-O3">>},
     compiler : {"", "gcc", "intel", "oneapi", "clang"}]

\* config_add as the caller holds it: None, or a list. Within the call
\* None and the empty list are alike (lines 789, 833), and <<>> in the
\* arguments stands for both.
NoneList == [is_none |-> TRUE, value |-> <<>>]

SomeList(v) == [is_none |-> FALSE, value |-> v]

DefaultGenArgs ==
    [cores |-> NoneInt, spec_root |-> "", tune |-> NoneStr, config_add |-> <<>>,
     compiler |-> ""]

\* The call ends by raising.
ReturnNone_Raise ==
    /\ gpc' = "raised"
    /\ generated' = NoneStr
    /\ UNCHANGED <<gargs, machine, template_content, effective_compiler,
                   config_add, tmpfiles, gcalls, caller_list>>

\* return None, from a return statement or from the except clause
ReturnNone ==
    /\ gpc' = "returned"
    /\ generated' = NoneStr
    /\ UNCHANGED <<gargs, machine, template_content, effective_compiler,
                   config_add, tmpfiles, gcalls, caller_list>>

\* Lines 716 - 739: find and read the template, set the label.
ReadTemplate ==
    /\ gpc = "read"
    /\ LET spec_path == SpecPath(gargs, machine)
       IN  IF \/ spec_path = ""
              \/ TemplatePath(spec_path) \notin machine.fs
              \/ ~machine.template.readable
           THEN ReturnNone
           ELSE /\ template_content' = Replace(machine.template.text,
                                               LabelLine("mytest"), <<LabelLine("specer")>>)
                /\ gpc' = "select"
                /\ UNCHANGED <<gargs, machine, effective_compiler, config_add,
                               generated, tmpfiles, gcalls, caller_list>>
    /\ UNCHANGED <<nameVars, liveVars, rsfVars, buildVars, invVars>>

\* Where the call goes on for an effective compiler.
BranchOf(compiler) ==
    IF compiler \in {"intel", "oneapi"} THEN "intel"
    ELSE IF compiler = "gcc" THEN "gcc" ELSE "write"

\* Lines 741 - 756: the compiler given, else Intel when oneAPI is found and
\* GCC when it is not.
SelectCompiler ==
    /\ gpc = "select"
    /\ IF gargs.compiler # ""
       THEN /\ effective_compiler' = gargs.compiler
            /\ gpc' = BranchOf(gargs.compiler)
            /\ UNCHANGED <<gargs, machine, template_content, config_add,
                           generated, tmpfiles, gcalls, caller_list>>
       ELSE IF detect_gcc_path(machine).raised
       THEN ReturnNone
       ELSE /\ effective_compiler' =
                  IF detect_intel_oneapi_path(machine) # "" THEN "intel" ELSE "gcc"
            /\ gpc' = BranchOf(effective_compiler')
            /\ UNCHANGED <<gargs, machine, template_content, config_add,
                           generated, tmpfiles, gcalls, caller_list>>
    /\ UNCHANGED <<nameVars, liveVars, rsfVars, buildVars, invVars>>

\* Lines 758 - 796: the Intel toolchain is used when it is found, set up
\* and validated; else the call goes on with GCC. For None a new list is
\* made; else config_add.extend(...) extends the list the caller passed,
\* and the caller's list holds the Intel entries afterwards.
ConfigureIntel ==
    /\ gpc = "intel"
    /\ LET oneapi_path == detect_intel_oneapi_path(machine)
       IN  IF oneapi_path # "" /\ IntelUsable(machine, oneapi_path)
           THEN /\ config_add' = config_add
                                 \o generate_intel_config_additions(machine, oneapi_path)
                /\ caller_list' = IF caller_list.is_none THEN caller_list
                                   ELSE SomeList(config_add')
                /\ gpc' = "write"
                /\ UNCHANGED effective_compiler
           ELSE /\ effective_compiler' = "gcc"
                /\ gpc' = "gcc"
                /\ UNCHANGED <<config_add, caller_list>>
    /\ UNCHANGED <<gargs, machine, template_content, generated, tmpfiles, gcalls>>
    /\ UNCHANGED <<nameVars, liveVars, rsfVars, buildVars, invVars>>

\* The gate opened for every version detected.
GateOpen_AnyVersion(gcc_version) == ~gcc_version.is_none

\* if gcc_version and gcc_version >= 10
GateOpen(gcc_version) == ~gcc_version.is_none /\ gcc_version.value >= 10

\* Lines 798 - 820: the GCC 10 gate and gcc_dir, from the two GCC probes.
ConfigureGcc ==
    /\ gpc = "gcc"
    /\ LET gcc_version == detect_gcc_version(machine)
           gcc_path == detect_gcc_path(machine)
           gated == IF GateOpen(gcc_version.value)
                    THEN Replace(template_content, "#" \o GCCge10Line,
                                 <<GCCge10Line \o " (auto-detected)">>)
                    ELSE template_content
       IN  IF gcc_version.raised \/ gcc_path.raised
           THEN ReturnNone
           ELSE /\ template_content' =
                      IF gcc_path.value # ""
                      THEN ReplaceOnce(gated, GccDirLine("/opt/rh/devtoolset-9/root/usr"),
                                       GccDirLine(gcc_path.value) \o " (auto-detected)")
                      ELSE gated
                /\ gpc' = "write"
                /\ UNCHANGED <<gargs, machine, effective_compiler, config_add,
                               generated, tmpfiles, gcalls, caller_list>>
    /\ UNCHANGED <<nameVars, liveVars, rsfVars, buildVars, invVars>>

\* Lines 822 - 924: tune, the extra settings, copies, and the temporary file.
\* When the file cannot be created, or not be written, None is returned.
WriteConfig ==
    /\ gpc = "write"
    /\ LET text == SetCopies(ApplyAdditions(SetTune(template_content, gargs.tune),
                                            config_add),
                             gargs.cores, machine.cpu_count)
       IN  /\ template_content' = text
           /\ CASE machine.tmp = "ok" ->
                     /\ tmpfiles' = Put(tmpfiles, TempName(gcalls), text)
                     /\ generated' = SomeStr(TempName(gcalls))
                [] machine.tmp = "full" ->
                     /\ tmpfiles' = Put(tmpfiles, TempName(gcalls), <<"">>)
                     /\ generated' = NoneStr
                [] OTHER ->
                     /\ generated' = NoneStr
                     /\ UNCHANGED tmpfiles
    /\ gpc' = "returned"
    /\ UNCHANGED <<gargs, machine, effective_compiler, config_add, gcalls,
                   caller_list>>
    /\ UNCHANGED <<nameVars, liveVars, rsfVars, buildVars, invVars>>

\* The caller generates once more, with the same arguments: None again, or
\* the list it passed before, as the call before left it.
Regenerate ==
    /\ ipc = "idle"
    /\ gpc = "returned"
    /\ gcalls < MaxCalls
    /\ gcalls' = gcalls + 1
    /\ gpc' = "read"
    /\ template_content' = <<>>
    /\ effective_compiler' = ""
    /\ gargs' = [gargs EXCEPT !.config_add = caller_list.value]
    /\ config_add' = caller_list.value
    /\ generated' = NoneStr
    /\ UNCHANGED <<machine, tmpfiles, caller_list>>
    /\ UNCHANGED <<nameVars, liveVars, rsfVars, buildVars, invVars>>

GenIdle ==
    /\ gargs = DefaultGenArgs
    /\ machine = Workstation
    /\ gpc = "idle"
    /\ template_content = <<>>
    /\ effective_compiler = ""
    /\ config_add = <<>>
    /\ generated = NoneStr
    /\ tmpfiles = <<>>
    /\ gcalls = 0
    /\ caller_list = NoneList

\* The calls looked at: every argument list on the workstation, the
\* arguments that matter to the probes on the other machines, and every
\* list of extra settings on the other templates.
GenCase(a, m) ==
    \/ m = Workstation
    \/ /\ a.cores = NoneInt
       /\ a.spec_root = SpecRoot \/ m.spec_path # ""
       /\ a.tune \in {NoneStr, SomeStr("all")}
       /\ \/ Len(a.config_add) < 2
          \/ m.template.text # ExampleTemplate /\ a.compiler = "gcc"

\* What the caller holds for config_add: the list it passes; for <<>>
\* it is None, and on the two machines below, with cores and tune left out,
\* also an empty list of its own.
CallerLists(a, m) ==
    IF a.config_add # <<>> THEN {SomeList(a.config_add)}
    ELSE {NoneList} \cup
         (IF m \in {Workstation, IntelMachine} /\ a.cores = NoneInt /\ a.tune = NoneStr
          THEN {SomeList(<<>>)} ELSE {})

GenStart ==
    /\ gargs \in GenArgs
    /\ machine \in Machines
    /\ GenCase(gargs, machine)
    /\ gpc = "read"
    /\ template_content = <<>>
    /\ effective_compiler = ""
    /\ config_add = gargs.config_add
    /\ generated = NoneStr
    /\ tmpfiles = <<>>
    /\ gcalls = 1
    /\ caller_list \in CallerLists(gargs, machine)

NextGen ==
    \/ ReadTemplate
    \/ SelectCompiler
    \/ ConfigureIntel
    \/ ConfigureGcc
    \/ WriteConfig
    \/ Regenerate

-----------------------------------------------------------------------------
(* commands/run.py, compile.py, setup.py, clean.py, update.py: an           *)
(* invocation and its generated config; utils.py: execute_runcpu           *)

\* An invocation is one of the commands, from its flag check on, or a call
\* of execute_runcpu by itself. Within it generate_config_from_template is the generator above,
\* taking its steps on the generator's variables, and parse_result_files is
\* the parser above, taking its steps on the parser's variables: the lines
\* it reads are the lines the command has printed.

\* What has been raised: nothing, typer.Exit(code), or an exception that no
\* handler catches (the interpreter ends with status 1).
NotRaised == [kind |-> "none", code |-> 0]
Exit(code) == [kind |-> "Exit", code |-> code]
Uncaught(name) == [kind |-> name, code |-> 1]

\* The action runcpu is asked for by each command.
ActionOf == ("run" :> "run") @@ ("compile" :> "build") @@ ("clean" :> "clean")
            @@ ("setup" :> "setup") @@ ("update" :> "update")
            @@ ("execute_runcpu" :> "run")

\* Path(p).unlink() where it succeeds
Unlink(files, p) == [f \in (DOMAIN files) \ {p} |-> files[f]]

\* The arguments the commands give to build_runcpu_command, the options
\* that only add tokens at their defaults: --tune base in run, compile and
\* setup, --size ref in run. run is looked at with --verbose, where
\* parse_results and hide_logs are what --parse-results and --quiet say;
\* the other commands are looked at without it. update passes no
\* benchmarks and the config "".
CommandArgs(a, bs, effective_config) ==
    [DefaultArgs EXCEPT !.action = ActionOf[a.command],
                        !.benchmarks = bs,
                        !.config = effective_config,
                        !.spec_root = a.spec_root,
                        !.tune = IF a.command \in {"run", "compile", "setup"}
                                 THEN SomeStr("base") ELSE NoneStr,
                        !.size = IF a.command = "run"
                                 THEN SomeStr("ref") ELSE NoneStr,
                        !.verbose = (a.command = "run")]

\* An invocation: the command, --speed and --rate, --config ("" for None),
\* --dry-run, the parse_results and hide_logs that execute_runcpu is given,
\* the root, whether the temporary file can be unlinked, and --sync with
\* what becomes of the worker: "off" without the option, "unavailable" when
\* create_evalsync_worker returns None, "ok" when both signals pass, and the
\* signal that raises otherwise.
InvokeArgs ==
    [command : {"run", "compile", "setup", "clean", "update", "execute_runcpu"},
     speed : BOOLEAN,
     rate : BOOLEAN,
     config : {"", "my.cfg"},
     sync : {"off", "unavailable", "ok", "ready_fails", "start_fails"},
     dry_run : BOOLEAN,
     parse_results : BOOLEAN,
     hide_logs : BOOLEAN,
     spec_root : {NoRoot, Root(SpecRoot, TRUE), Root(SpecRoot, FALSE),
                  Root(".", TRUE)},
     unlink : {"ok", "fails"}]

\* What becomes of the external command: it exits with a code, having
\* printed something or nothing; it cannot be started; the user interrupts.
Procs ==
    [kind : {"exit"}, returncode : {0, 1, 2}, silent : BOOLEAN]
    \cup [kind : {"not_found", "interrupt"}, returncode : {0}, silent : {TRUE}]

\* The benchmarks the commands are given.
InvokeBenchmarks == {<<"gcc">>, <<"519.lbm_r", "intspeed">>}

\* The machines of the invocations.
InvokeMachines ==
    {Workstation, IntelMachine, [Workstation EXCEPT !.fs = {}],
     [Workstation EXCEPT !.which_gcc = TimedOut],
     [Workstation EXCEPT !.tmp = "full"]}

\* The invocations looked at. The commands have a root
\* (validate_and_get_spec_root); compile, setup and clean leave
\* parse_results and hide_logs at False; setup requires --config; a call of
\* execute_runcpu by itself has no flags, no dry run and no config of its
\* own. Only run has --sync. The output is parsed on one machine. update
\* has a root, --dry-run and nothing else. The root "." (--spec-root .) has
\* no template under it: the commands are given a config there.
InvokeCase(a, p, m, bs) ==
    /\ a.command = "update" =>
          /\ a.config = "" /\ a.unlink = "ok" /\ ~a.speed /\ ~a.rate
          /\ m = Workstation /\ bs = <<"gcc">>
    /\ a.spec_root = Root(".", TRUE) =>
          /\ a.command = "update" \/ a.config = "my.cfg"
          /\ ~a.speed /\ ~a.rate /\ ~a.parse_results /\ ~a.hide_logs
          /\ a.sync = "off" /\ bs = <<"gcc">>
          /\ p.kind = "exit"
    /\ a.command = "execute_runcpu" =>
          /\ a.config = "my.cfg" /\ ~a.dry_run /\ a.unlink = "ok"
          /\ ~a.hide_logs /\ ~a.speed /\ ~a.rate
          /\ m = Workstation
    /\ a.command # "execute_runcpu" => a.spec_root # NoRoot
    /\ a.command \in {"compile", "setup", "clean", "update"} =>
          ~a.parse_results /\ ~a.hide_logs
    /\ a.command = "setup" => a.config = "my.cfg"
    /\ a.command # "run" => a.sync = "off"
    /\ a.sync # "off" =>
          /\ a.config = "my.cfg" /\ ~a.parse_results /\ ~a.hide_logs
          /\ a.spec_root.has_runcpu /\ ~a.speed /\ ~a.rate
          /\ a.dry_run => a.sync = "ok"
    /\ (a.speed \/ a.rate) =>
          /\ m = Workstation /\ a.unlink = "ok" /\ a.spec_root.has_runcpu
          /\ ~a.parse_results /\ ~a.hide_logs
          /\ p = [kind |-> "exit", returncode |-> 0, silent |-> FALSE]
    /\ Len(bs) > 1 =>
          /\ m = Workstation /\ a.unlink = "ok" /\ a.spec_root.has_runcpu
          /\ ~a.parse_results /\ ~a.hide_logs /\ a.sync = "off"
          /\ p = [kind |-> "exit", returncode |-> 0, silent |-> FALSE]
    /\ a.config # "" => m = Workstation /\ a.unlink = "ok"
    /\ a.dry_run => p = [kind |-> "exit", returncode |-> 0, silent |-> FALSE]
                    /\ ~a.parse_results /\ ~a.hide_logs
    /\ (a.parse_results /\ a.command = "run") =>
          /\ m = Workstation /\ a.unlink = "ok" /\ ~a.hide_logs
          /\ a.spec_root.has_runcpu
    /\ a.unlink = "fails" => m = Workstation /\ p.returncode = 0
    /\ p.silent => a.parse_results \/ p.kind # "exit"

\* run taken as never having a worker.
HasWorker_Never(a) == FALSE

\* Whether run has a worker: run.py 482 - 489.
HasWorker(a) == a.command = "run" /\ a.sync \notin {"off", "unavailable"}

\* except Exception: if evalsync_worker: evalsync_worker.cleanup()
\* (run.py 518 - 522), as the events it adds.
WorkerCleanup(a) == IF HasWorker(a) THEN <<"cleanup">> ELSE <<>>

\* An event has happened.
Happened(e) == \E k \in 1..Len(events) : events[k] = e

\* The flags taken as never both set.
BothFlags_Never(a) == FALSE

\* if speed and rate:
BothFlags(a) == a.speed /\ a.rate

\* The resolution of the names: the preference chosen, the names converted.
ResolveNames ==
    LET pref == ChosenPreference(benchmarks, iargs.speed, iargs.rate)
    IN  /\ prefer_speed' = pref[1]
        /\ prefer_rate' = pref[2]
        /\ converted_benchmarks' =
               convert_benchmark_names(benchmarks, pref[1], pref[2])
        /\ cpc' = "resolved"
        /\ UNCHANGED exit_code

\* The first statement of every command (run.py 261 - 264, compile.py
\* 145 - 148, setup.py 86 - 89, clean.py 95 - 98): both flags is exit 1.
\* compile, setup and clean resolve the names next, run resolves them when
\* its config is there (run.py 373 - 385).
CheckFlags ==
    /\ ipc = "flags"
    /\ command' = iargs.command
    /\ speed' = iargs.speed
    /\ rate' = iargs.rate
    /\ IF BothFlags(iargs)
       THEN /\ raised' = Exit(1)
            /\ ipc' = "ended"
            /\ cpc' = "exit_flags"
            /\ exit_code' = 1
            /\ UNCHANGED <<prefer_speed, prefer_rate, converted_benchmarks,
                           gpc, gcalls>>
       ELSE /\ ipc' = "generate"
            /\ gpc' = IF iargs.command # "setup" /\ iargs.config = ""
                      THEN "read" ELSE "idle"
            /\ gcalls' = IF gpc' = "read" THEN 1 ELSE 0
            /\ IF iargs.command = "run"
               THEN UNCHANGED <<cpc, prefer_speed, prefer_rate,
                                converted_benchmarks, exit_code>>
               ELSE ResolveNames
            /\ UNCHANGED raised
    /\ UNCHANGED <<benchmarks, iargs, proc, generated_config_path, final_cmd,
                   result_info, events>>
    /\ UNCHANGED <<gargs, machine, template_content, effective_compiler,
                   config_add, generated, tmpfiles, caller_list>>
    /\ UNCHANGED <<liveVars, rsfVars, buildVars>>

\* run.py 338 - 471 (compile.py 216 - 270, clean.py 122 - 163, setup.py
\* 105 - 157), once the generator has returned: no config is exit 1;
\* build_runcpu_command exits with 1 when the root has no bin/runcpu; a dry
\* run unlinks the generated file, and an OSError of the unlink is not
\* caught. With a worker the signals come before the execution.
PrepareCommand ==
    /\ ipc = "generate"
    /\ gpc \in {"idle", "returned"}
    /\ LET path == IF iargs.config # "" \/ generated.is_none
                   THEN "" ELSE generated.value
           effective_config == IF iargs.config # "" THEN iargs.config ELSE path
       IN  IF effective_config = ""
           THEN /\ raised' = Exit(1)
                /\ ipc' = "ended"
                /\ UNCHANGED <<generated_config_path, final_cmd, tmpfiles>>
                /\ UNCHANGED <<cpc, prefer_speed, prefer_rate,
                               converted_benchmarks, exit_code>>
           ELSE /\ IF iargs.command = "run"
                   THEN ResolveNames
                   ELSE UNCHANGED <<cpc, prefer_speed, prefer_rate,
                                    converted_benchmarks, exit_code>>
                /\ generated_config_path' = path
                /\ IF RuncpuMissing(iargs.spec_root)
                   THEN /\ raised' = Exit(1)
                        /\ ipc' = "ended"
                        /\ UNCHANGED <<final_cmd, tmpfiles>>
                   ELSE /\ final_cmd' = build_runcpu_command(
                                CommandArgs(iargs, converted_benchmarks',
                                            effective_config))
                        /\ IF ~iargs.dry_run
                           THEN /\ ipc' = IF HasWorker(iargs)
                                          THEN "ready" ELSE "execute"
                                /\ UNCHANGED <<raised, tmpfiles>>
                           ELSE /\ ipc' = "ended"
                                /\ IF path = ""
                                   THEN UNCHANGED <<raised, tmpfiles>>
                                   ELSE IF iargs.unlink = "fails"
                                   THEN /\ raised' = Uncaught("OSError")
                                        /\ UNCHANGED tmpfiles
                                   ELSE /\ tmpfiles' = Unlink(tmpfiles, path)
                                        /\ UNCHANGED raised
    /\ UNCHANGED <<iargs, proc, result_info, events>>
    /\ UNCHANGED <<gargs, machine, gpc, template_content, effective_compiler,
                   config_add, generated, gcalls, caller_list>>
    /\ UNCHANGED <<benchmarks, command, speed, rate>>
    /\ UNCHANGED <<liveVars, rsfVars, buildVars>>

\* run.py 492 - 496 with sync.py 74 - 87: the ready signal; what it raises
\* is raised again once the worker is cleaned up (run.py 518 - 522).
SendReady ==
    /\ ipc = "ready"
    /\ IF iargs.sync = "ready_fails"
       THEN /\ events' = events \o <<"cleanup">>
            /\ raised' = Uncaught("Exception")
            /\ ipc' = "ended"
       ELSE /\ events' = Append(events, "ready")
            /\ ipc' = "wait"
            /\ UNCHANGED raised
    /\ UNCHANGED <<iargs, proc, generated_config_path, final_cmd, result_info>>
    /\ UNCHANGED <<nameVars, liveVars, rsfVars, buildVars, genVars>>

\* run.py 497 - 498 with sync.py 89 - 103: the wait for the start signal.
WaitForStart ==
    /\ ipc = "wait"
    /\ IF iargs.sync = "start_fails"
       THEN /\ events' = events \o <<"cleanup">>
            /\ raised' = Uncaught("Exception")
            /\ ipc' = "ended"
       ELSE /\ events' = Append(events, "start")
            /\ ipc' = "execute"
            /\ UNCHANGED raised
    /\ UNCHANGED <<iargs, proc, generated_config_path, final_cmd, result_info>>
    /\ UNCHANGED <<nameVars, liveVars, rsfVars, buildVars, genVars>>

\* Where an invocation goes on when execute_runcpu has returned.
AfterExecute(c) ==
    IF c \in {"execute_runcpu", "setup"} THEN "ended" ELSE "cleanup"

\* execute_runcpu up to the call of parse_result_files: FileNotFoundError is
\* exit 1, KeyboardInterrupt exit 130, a return code n # 0 exit n. The
\* output is parsed when parse_results and spec_root are given and the
\* command has printed something. The affinity options are left at None:
\* build_affinity_command returns the command as it is, without a probe
\* (utils.py 1091 - 1092). "runcpu" is the external command started,
\* "runcpu_done" execute_runcpu left, by return or by exception.
ExecuteRuncpu ==
    /\ ipc = "execute"
    /\ CASE proc.kind = "not_found" ->
               /\ raised' = Exit(1)
               /\ ipc' = "ended"
               /\ events' = events \o <<"runcpu", "runcpu_done">>
                                   \o WorkerCleanup(iargs)
               /\ UNCHANGED <<result_info, liveVars>>
         [] proc.kind = "interrupt" ->
               /\ raised' = Exit(130)
               /\ ipc' = "ended"
               /\ events' = events \o <<"runcpu", "runcpu_done">>
                                   \o WorkerCleanup(iargs)
               /\ UNCHANGED <<result_info, liveVars>>
         [] proc.kind = "exit" /\ proc.returncode # 0 ->
               /\ raised' = Exit(proc.returncode)
               /\ ipc' = "ended"
               /\ events' = events \o <<"runcpu", "runcpu_done">>
                                   \o WorkerCleanup(iargs)
               /\ UNCHANGED <<result_info, liveVars>>
         [] OTHER ->
               IF iargs.parse_results /\ ~iargs.spec_root.is_none /\ ~proc.silent
               THEN /\ lpc' = "lines"
                    /\ ipc' = "parse"
                    /\ events' = Append(events, "runcpu")
                    /\ UNCHANGED <<raised, result_info, output, result_files,
                                   scores, metrics, log_file, parsed>>
               ELSE /\ result_info' = "None"
                    /\ ipc' = AfterExecute(iargs.command)
                    /\ events' = events \o <<"runcpu", "runcpu_done">>
                    /\ UNCHANGED <<raised, liveVars>>
    /\ UNCHANGED <<iargs, proc, generated_config_path, final_cmd>>
    /\ UNCHANGED <<nameVars, rsfVars, buildVars, genVars>>

\* utils.py 1281 - 1285: the record parse_result_files returns is returned,
\* None is returned as None; its ValueError is caught by no except clause of
\* execute_runcpu, and by none of the commands.
ReturnParsed ==
    /\ ipc = "parse"
    /\ lpc \in {"returned", "raised"}
    /\ IF lpc = "raised"
       THEN /\ raised' = Uncaught("ValueError")
            /\ ipc' = "ended"
            /\ events' = Append(events, "runcpu_done") \o WorkerCleanup(iargs)
            /\ UNCHANGED result_info
       ELSE /\ result_info' = parsed
            /\ ipc' = AfterExecute(iargs.command)
            /\ events' = Append(events, "runcpu_done")
            /\ UNCHANGED raised
    /\ UNCHANGED <<iargs, proc, generated_config_path, final_cmd>>
    /\ UNCHANGED <<nameVars, liveVars, rsfVars, buildVars, genVars>>

\* run.py 632 - 639 (compile.py 281 - 284, clean.py 168 - 171): the unlink
\* after the execution, its OSError suppressed; run cleans its worker up.
CleanUp ==
    /\ ipc = "cleanup"
    /\ ipc' = "ended"
    /\ tmpfiles' = IF generated_config_path # "" /\ iargs.unlink = "ok"
                   THEN Unlink(tmpfiles, generated_config_path) ELSE tmpfiles
    /\ events' = events \o WorkerCleanup(iargs)
    /\ UNCHANGED <<iargs, proc, generated_config_path, final_cmd, raised, result_info>>
    /\ UNCHANGED <<gargs, machine, gpc, template_content, effective_compiler,
                   config_add, generated, gcalls, caller_list>>
    /\ UNCHANGED <<nameVars, liveVars, rsfVars, buildVars>>

\* update.py 52 - 72: update_command builds the command of the action
\* update, with no benchmarks and no config; build_runcpu_command exits with
\* 1 when the root has no bin/runcpu; a dry run prints the command and
\* returns. It has no flags to check, resolves no names and generates no
\* config.
UpdateCommand ==
    /\ ipc = "update"
    /\ IF RuncpuMissing(iargs.spec_root)
       THEN /\ raised' = Exit(1)
            /\ ipc' = "ended"
            /\ UNCHANGED final_cmd
       ELSE /\ final_cmd' = build_runcpu_command(CommandArgs(iargs, <<>>, ""))
            /\ ipc' = IF iargs.dry_run THEN "ended" ELSE "execute_update"
            /\ UNCHANGED raised
    /\ UNCHANGED <<iargs, proc, generated_config_path, result_info, events>>
    /\ UNCHANGED <<nameVars, liveVars, rsfVars, buildVars, genVars>>

\* update.py 75 - 140: _execute_update_with_confirmation starts the command
\* with Popen, answers "y" and waits. Return code 0 returns. A return code
\* n # 0 raises typer.Exit(n) inside the try block, where 'except
\* Exception' catches it (typer.Exit is a RuntimeError) and raises
\* typer.Exit(1); the FileNotFoundError of Popen is caught there too. A
\* KeyboardInterrupt is no Exception: no clause catches it. "runcpu" is
\* the external command started, "update_done" the function left.
ExecuteUpdate ==
    /\ ipc = "execute_update"
    /\ raised' = CASE proc.kind = "interrupt" -> Uncaught("KeyboardInterrupt")
                   [] proc.kind = "exit" /\ proc.returncode = 0 -> NotRaised
                   [] OTHER -> Exit(1)
    /\ ipc' = "ended"
    /\ events' = events \o <<"runcpu", "update_done">>
    /\ UNCHANGED <<iargs, proc, generated_config_path, final_cmd, result_info>>
    /\ UNCHANGED <<nameVars, liveVars, rsfVars, buildVars, genVars>>

InvokeArgsIdle ==
    [command |-> "execute_runcpu", speed |-> FALSE, rate |-> FALSE,
     config |-> "", sync |-> "off", dry_run |-> FALSE,
     parse_results |-> FALSE, hide_logs |-> FALSE, spec_root |-> NoRoot,
     unlink |-> "ok"]

InvokeIdle ==
    /\ iargs = InvokeArgsIdle
    /\ proc = [kind |-> "exit", returncode |-> 0, silent |-> FALSE]
    /\ ipc = "idle"
    /\ generated_config_path = ""
    /\ final_cmd = <<>>
    /\ raised = NotRaised
    /\ result_info = ""
    /\ events = <<>>

\* Where an invocation starts: run, compile, setup and clean at their flag
\* check, update at its first statement, a call of execute_runcpu by itself
\* at the execution.
FirstStep(c) ==
    IF c = "execute_runcpu" THEN "execute"
    ELSE IF c = "update" THEN "update" ELSE "flags"

\* A command starts at its first statement; a call of execute_runcpu by
\* itself is given the command built from its arguments. The generator is
\* given the root of the command.
InvokeStart ==
    /\ iargs \in InvokeArgs
    /\ proc \in Procs
    /\ machine \in InvokeMachines
    /\ benchmarks \in InvokeBenchmarks
    /\ InvokeCase(iargs, proc, machine, benchmarks)
    /\ ipc = FirstStep(iargs.command)
    /\ cpc = IF iargs.command \in Commands THEN "start" ELSE "idle"
    /\ command = ""
    /\ speed = FALSE
    /\ rate = FALSE
    /\ prefer_speed = FALSE
    /\ prefer_rate = FALSE
    /\ converted_benchmarks = <<>>
    /\ exit_code = -1
    /\ generated_config_path = ""
    /\ final_cmd = IF iargs.command = "execute_runcpu"
                   THEN build_runcpu_command(
                            CommandArgs(iargs, benchmarks, iargs.config))
                   ELSE <<>>
    /\ raised = NotRaised
    /\ result_info = ""
    /\ events = <<>>
    /\ gargs = [DefaultGenArgs EXCEPT !.spec_root = iargs.spec_root.value,
                                      !.tune = SomeStr("base")]
    /\ gpc = "idle"
    /\ gcalls = 0
    /\ caller_list = NoneList
    /\ template_content = <<>>
    /\ effective_compiler = ""
    /\ config_add = <<>>
    /\ generated = NoneStr
    /\ tmpfiles = <<>>

NextInvoke ==
    \/ CheckFlags
    \/ PrepareCommand
    \/ SendReady
    \/ WaitForStart
    \/ ExecuteRuncpu
    \/ ReturnParsed
    \/ CleanUp
    \/ UpdateCommand
    \/ ExecuteUpdate
    \/ ReadTemplate
    \/ SelectCompiler
    \/ ConfigureIntel
    \/ ConfigureGcc
    \/ WriteConfig
    \/ ReadLine
    \/ ParseReturn

-----------------------------------------------------------------------------
(* cli.py: the commands of cli.app, which cli_main starts                  *)

\* cli.py imports nothing of utils.py, result_parser.py and commands/: it
\* holds functions of its own. _validate_and_get_spec_root,
\* _detect_suite_preference, _convert_benchmark_names and
\* _parse_result_files are the statements of their namesakes again, and the
\* operators and the parser's steps above stand for them. The builder, the
\* generator, _execute_runcpu and the commands differ and are given here.

\* _detect_gcc_version(): the probes stand in a try block of their own, and
\* a timeout is None
_detect_gcc_version(m) == detect_gcc_version(m).value

\* _generate_config_from_template, the text it writes: the label, the GCC 10
\* gate, tune and copies, each by template_content.replace(old, new). It
\* has no compiler and no config_add, and leaves gcc_dir alone.
_generate_config_from_template(m, cores, tune) ==
    LET labelled == Replace(m.template.text,
                            LabelLine("mytest"), <<LabelLine("specer")>>)
        gated    == IF GateOpen(_detect_gcc_version(m))
                    THEN Replace(labelled, "#" \o GCCge10Line,
                                 <<GCCge10Line \o " (auto-detected)">>)
                    ELSE labelled
    IN  SetCopies(SetTune(gated, tune), cores, m.cpu_count)

\* An invocation of cli.py: the command, its flags, --config ("" for None),
\* --dry-run, --parse-results, the root and whether the temporary file can
\* be unlinked. The commands have neither --sync nor --quiet.
CliArgs ==
    [command : {"run", "compile", "setup", "clean", "update"},
     speed : BOOLEAN,
     rate : BOOLEAN,
     config : {"", "my.cfg"},
     sync : {"off"},
     dry_run : BOOLEAN,
     parse_results : BOOLEAN,
     hide_logs : {FALSE},
     spec_root : {Root(SpecRoot, TRUE), Root(SpecRoot, FALSE), Root(".", TRUE)},
     unlink : {"ok", "fails"}]

\* The machines of these invocations: those above, and one with a GCC
\* older than 10.
CliMachines ==
    InvokeMachines
    \cup {[Workstation EXCEPT !.which_gcc = Ran("/opt/gcc-9/bin/gcc"),
               !.gcc_version = Ran("gcc (Ubuntu 9.4.0-1ubuntu1~20.04.1) 9.4.0")]}

\* The invocations looked at. compile, setup and clean require --config and
\* generate nothing; update has a root, --dry-run and nothing else; only
\* run has --parse-results. The output is parsed on one machine.
CliCase(a, p, m, bs) ==
    /\ a.command = "update" =>
          /\ a.config = "" /\ ~a.speed /\ ~a.rate /\ bs = <<"gcc">>
    /\ a.command \in {"compile", "setup", "clean"} => a.config = "my.cfg"
    /\ a.command # "run" => ~a.parse_results
    /\ (a.command # "run" \/ a.config # "") => m = Workstation /\ a.unlink = "ok"
    /\ a.spec_root = Root(".", TRUE) =>
          /\ a.command = "update" \/ a.config = "my.cfg"
          /\ ~a.speed /\ ~a.rate /\ ~a.parse_results /\ bs = <<"gcc">>
          /\ p.kind = "exit"
    /\ (a.speed \/ a.rate) =>
          /\ m = Workstation /\ a.unlink = "ok" /\ a.spec_root.has_runcpu
          /\ ~a.parse_results
          /\ p = [kind |-> "exit", returncode |-> 0, silent |-> FALSE]
    /\ Len(bs) > 1 =>
          /\ m = Workstation /\ a.unlink = "ok" /\ a.spec_root.has_runcpu
          /\ ~a.parse_results
          /\ p = [kind |-> "exit", returncode |-> 0, silent |-> FALSE]
    /\ a.dry_run => p = [kind |-> "exit", returncode |-> 0, silent |-> FALSE]
                    /\ ~a.parse_results
    /\ a.parse_results =>
          m = Workstation /\ a.unlink = "ok" /\ a.spec_root.has_runcpu
    /\ a.unlink = "fails" => m = Workstation /\ p.returncode = 0
    /\ p.silent => a.parse_results \/ p.kind # "exit"

\* The first statement of run, compile, setup and clean (cli.py 622 - 625,
\* 427 - 429, 871 - 873, 973 - 975): both flags is exit 1. compile, setup
\* and clean resolve the names next (431 - 440, 875 - 884, 977 - 986); run
\* generates a config when none is given (635 - 639).
CliCheckFlags ==
    /\ ipc = "cli_flags"
    /\ command' = iargs.command
    /\ speed' = iargs.speed
    /\ rate' = iargs.rate
    /\ IF BothFlags(iargs)
       THEN /\ raised' = Exit(1)
            /\ ipc' = "ended"
            /\ cpc' = "exit_flags"
            /\ exit_code' = 1
            /\ UNCHANGED <<prefer_speed, prefer_rate, converted_benchmarks>>
       ELSE /\ ipc' = IF iargs.command = "run" /\ iargs.config = ""
                      THEN "cli_generate" ELSE "cli_prepare"
            /\ IF iargs.command = "run"
               THEN UNCHANGED <<cpc, prefer_speed, prefer_rate,
                                converted_benchmarks, exit_code>>
               ELSE ResolveNames
            /\ UNCHANGED raised
    /\ UNCHANGED <<benchmarks, iargs, proc, generated_config_path, final_cmd,
                   result_info, events>>
    /\ UNCHANGED <<liveVars, rsfVars, buildVars, genVars>>

\* cli.py 208 - 301, one call of _generate_config_from_template with the
\* root of the command, cores at None and tune "base": None when the
\* template is not there or cannot be read, or when the temporary file
\* cannot be created or written (a file that could not be written is left
\* behind, empty); else the name of the file written.
CliGenerate ==
    /\ ipc = "cli_generate"
    /\ ipc' = "cli_prepare"
    /\ gcalls' = gcalls + 1
    /\ IF \/ TemplatePath(iargs.spec_root.value) \notin machine.fs
          \/ ~machine.template.readable
       THEN /\ generated' = NoneStr
            /\ UNCHANGED <<template_content, tmpfiles>>
       ELSE LET text == _generate_config_from_template(machine, gargs.cores,
                                                       gargs.tune)
            IN  /\ template_content' = text
                /\ CASE machine.tmp = "ok" ->
                          /\ tmpfiles' = Put(tmpfiles, TempName(gcalls'), text)
                          /\ generated' = SomeStr(TempName(gcalls'))
                     [] machine.tmp = "full" ->
                          /\ tmpfiles' = Put(tmpfiles, TempName(gcalls'), <<"">>)
                          /\ generated' = NoneStr
                     [] OTHER ->
                          /\ generated' = NoneStr
                          /\ UNCHANGED tmpfiles
    /\ UNCHANGED <<gargs, machine, gpc, effective_compiler, config_add,
                   caller_list>>
    /\ UNCHANGED <<iargs, proc, generated_config_path, final_cmd, raised,
                   result_info, events>>
    /\ UNCHANGED <<nameVars, liveVars, rsfVars, buildVars>>

\* run from its config on (cli.py 640 - 744), compile, setup, clean and
\* update from their call of the builder on (449 - 463, 893 - 904,
\* 995 - 1005, 1052 - 1062). run without a config is exit 1; run resolves
\* the names here; _build_runcpu_command exits with 1 when the root has no
\* bin/runcpu; a dry run of run unlinks the generated file, and an OSError of
\* the unlink is not caught.
CliPrepare ==
    /\ ipc = "cli_prepare"
    /\ LET path == IF generated.is_none THEN "" ELSE generated.value
           effective_config == IF iargs.config # "" THEN iargs.config ELSE path
       IN  IF iargs.command = "run" /\ effective_config = ""
           THEN /\ raised' = Exit(1)
                /\ ipc' = "ended"
                /\ UNCHANGED <<generated_config_path, final_cmd, tmpfiles>>
                /\ UNCHANGED <<cpc, prefer_speed, prefer_rate,
                               converted_benchmarks, exit_code>>
           ELSE /\ IF iargs.command = "run"
                   THEN ResolveNames
                   ELSE UNCHANGED <<cpc, prefer_speed, prefer_rate,
                                    converted_benchmarks, exit_code>>
                /\ generated_config_path' = path
                /\ IF RuncpuMissing(iargs.spec_root)
                   THEN /\ raised' = Exit(1)
                        /\ ipc' = "ended"
                        /\ UNCHANGED <<final_cmd, tmpfiles>>
                   ELSE /\ final_cmd' = _build_runcpu_command(
                                CommandArgs(iargs,
                                            IF iargs.command = "update"
                                            THEN <<>> ELSE converted_benchmarks',
                                            effective_config))
                        /\ IF ~iargs.dry_run
                           THEN /\ ipc' = "cli_execute"
                                /\ UNCHANGED <<raised, tmpfiles>>
                           ELSE /\ ipc' = "ended"
                                /\ IF path = ""
                                   THEN UNCHANGED <<raised, tmpfiles>>
                                   ELSE IF iargs.unlink = "fails"
                                   THEN /\ raised' = Uncaught("OSError")
                                        /\ UNCHANGED tmpfiles
                                   ELSE /\ tmpfiles' = Unlink(tmpfiles, path)
                                        /\ UNCHANGED raised
    /\ UNCHANGED <<iargs, proc, result_info, events>>
    /\ UNCHANGED <<gargs, machine, gpc, template_content, effective_compiler,
                   config_add, generated, gcalls, caller_list>>
    /\ UNCHANGED <<benchmarks, command, speed, rate>>
    /\ UNCHANGED <<liveVars, rsfVars, buildVars>>

\* Where a command of cli.py goes on when _execute_runcpu has returned: run
\* unlinks its generated config, the others are over.
CliAfterExecute(c) == IF c = "run" THEN "cli_cleanup" ELSE "ended"

\* cli.py 1339 - 1406, _execute_runcpu up to the call of
\* _parse_result_files: FileNotFoundError is exit 1, KeyboardInterrupt exit
\* 130, a return code n # 0 exit n. The output is parsed when parse_results
\* and spec_root are given and the command has printed something.
CliExecuteRuncpu ==
    /\ ipc = "cli_execute"
    /\ CASE proc.kind = "not_found" ->
               /\ raised' = Exit(1)
               /\ ipc' = "ended"
               /\ events' = events \o <<"runcpu", "runcpu_done">>
               /\ UNCHANGED <<result_info, liveVars>>
         [] proc.kind = "interrupt" ->
               /\ raised' = Exit(130)
               /\ ipc' = "ended"
               /\ events' = events \o <<"runcpu", "runcpu_done">>
               /\ UNCHANGED <<result_info, liveVars>>
         [] proc.kind = "exit" /\ proc.returncode # 0 ->
               /\ raised' = Exit(proc.returncode)
               /\ ipc' = "ended"
               /\ events' = events \o <<"runcpu", "runcpu_done">>
               /\ UNCHANGED <<result_info, liveVars>>
         [] OTHER ->
               IF iargs.parse_results /\ ~iargs.spec_root.is_none /\ ~proc.silent
               THEN /\ lpc' = "lines"
                    /\ ipc' = "cli_parse"
                    /\ events' = Append(events, "runcpu")
                    /\ UNCHANGED <<raised, result_info, output, result_files,
                                   scores, metrics, log_file, parsed>>
               ELSE /\ result_info' = "None"
                    /\ ipc' = CliAfterExecute(iargs.command)
                    /\ events' = events \o <<"runcpu", "runcpu_done">>
                    /\ UNCHANGED <<raised, liveVars>>
    /\ UNCHANGED <<iargs, proc, generated_config_path, final_cmd>>
    /\ UNCHANGED <<nameVars, rsfVars, buildVars, genVars>>

\* cli.py 1390 - 1394: the record _parse_result_files returns is returned,
\* None is returned as None; its ValueError is caught by no except clause of
\* _execute_runcpu, and not by run.
CliReturnParsed ==
    /\ ipc = "cli_parse"
    /\ lpc \in {"returned", "raised"}
    /\ IF lpc = "raised"
       THEN /\ raised' = Uncaught("ValueError")
            /\ ipc' = "ended"
            /\ UNCHANGED result_info
       ELSE /\ result_info' = parsed
            /\ ipc' = CliAfterExecute(iargs.command)
            /\ UNCHANGED raised
    /\ events' = Append(events, "runcpu_done")
    /\ UNCHANGED <<iargs, proc, generated_config_path, final_cmd>>
    /\ UNCHANGED <<nameVars, liveVars, rsfVars, buildVars, genVars>>

\* cli.py 792 - 797: run unlinks the generated config after the execution,
\* the OSError of the unlink suppressed.
CliCleanUp ==
    /\ ipc = "cli_cleanup"
    /\ ipc' = "ended"
    /\ tmpfiles' = IF generated_config_path # "" /\ iargs.unlink = "ok"
                   THEN Unlink(tmpfiles, generated_config_path) ELSE tmpfiles
    /\ UNCHANGED <<iargs, proc, generated_config_path, final_cmd, raised,
                   result_info, events>>
    /\ UNCHANGED <<gargs, machine, gpc, template_content, effective_compiler,
                   config_add, generated, gcalls, caller_list>>
    /\ UNCHANGED <<nameVars, liveVars, rsfVars, buildVars>>

\* run, compile, setup and clean start at their flag check, update at its
\* call of the builder.
CliStart ==
    /\ iargs \in CliArgs
    /\ proc \in Procs
    /\ machine \in CliMachines
    /\ benchmarks \in InvokeBenchmarks
    /\ CliCase(iargs, proc, machine, benchmarks)
    /\ ipc = IF iargs.command = "update" THEN "cli_prepare" ELSE "cli_flags"
    /\ cpc = IF iargs.command \in Commands THEN "start" ELSE "idle"
    /\ command = ""
    /\ speed = FALSE
    /\ rate = FALSE
    /\ prefer_speed = FALSE
    /\ prefer_rate = FALSE
    /\ converted_benchmarks = <<>>
    /\ exit_code = -1
    /\ generated_config_path = ""
    /\ final_cmd = <<>>
    /\ raised = NotRaised
    /\ result_info = ""
    /\ events = <<>>
    /\ gargs = [DefaultGenArgs EXCEPT !.spec_root = iargs.spec_root.value,
                                      !.tune = SomeStr("base")]
    /\ gpc = "idle"
    /\ gcalls = 0
    /\ caller_list = NoneList
    /\ template_content = <<>>
    /\ effective_compiler = ""
    /\ config_add = <<>>
    /\ generated = NoneStr
    /\ tmpfiles = <<>>

NextCli ==
    \/ CliCheckFlags
    \/ CliGenerate
    \/ CliPrepare
    \/ CliExecuteRuncpu
    \/ CliReturnParsed
    \/ CliCleanUp
    \/ ReadLine
    \/ ParseReturn

-----------------------------------------------------------------------------
(* Specifications *)

\* The name resolver and the commands.
LaterIdle == BuildIdle /\ GenIdle /\ InvokeIdle

EarlyIdle == NamesIdle /\ LiveIdle /\ RsfIdle

InitNames == NamesStart /\ LiveIdle /\ RsfIdle /\ LaterIdle

SpecNames == InitNames /\ [][NextNames]_vars

\* parse_result_files alone
InitLive == NamesIdle /\ LiveStart /\ RsfIdle /\ LaterIdle

SpecLive == InitLive /\ [][NextLive]_vars

\* read_result_file alone
InitRsf == NamesIdle /\ LiveIdle /\ RsfStart /\ LaterIdle

SpecRsf == InitRsf /\ [][NextRsf]_vars

\* build_runcpu_command alone
InitBuild == EarlyIdle /\ BuildStart /\ GenIdle /\ InvokeIdle

SpecBuild == InitBuild /\ [][NextBuild]_vars

\* build_affinity_command alone
InitAffinity ==
    EarlyIdle /\ RuncpuIdle /\ AffinityStart /\ GenIdle /\ InvokeIdle

SpecAffinity == InitAffinity /\ [][NextAffinity]_vars

\* generate_config_from_template alone, called MaxCalls times
InitGen == EarlyIdle /\ BuildIdle /\ GenStart /\ InvokeIdle

SpecGen == InitGen /\ [][NextGen]_vars

\* An invocation of run, compile, setup, clean or update of commands/, or
\* a call of execute_runcpu
InitInvoke == LiveIdle /\ RsfIdle /\ BuildIdle /\ InvokeStart

SpecInvoke == InitInvoke /\ [][NextInvoke]_vars

\* An invocation of run, compile, setup, clean or update of cli.py
InitCli == LiveIdle /\ RsfIdle /\ BuildIdle /\ CliStart

SpecCli == InitCli /\ [][NextCli]_vars

\* The whole program: any one of its parts.
Init ==
    \/ InitNames \/ InitLive \/ InitRsf \/ InitBuild \/ InitAffinity
    \/ InitGen \/ InitInvoke \/ InitCli

Next ==
    \/ NextNames \/ NextLive \/ NextRsf \/ NextBuild \/ NextAffinity
    \/ NextGen \/ NextInvoke \/ NextCli

Spec == Init /\ [][Next]_vars

-----------------------------------------------------------------------------
(* The name resolver: C7 - C10, under SpecNames *)

\* The tokens of the command lines by kind, as a reader of the claims sorts
\* them.
FullIdTokens == {"602.gcc_s", "519.lbm_r", "507.cactuBSSN_r"}
SuiteTokens == {"intspeed", "fprate", "all", "IntRate"}
UnknownTokens == {"unknown_benchmark", "foo", "a.gcc", "rate_s", "SPEED_r"}

SpeedVariant(alias) == BENCHMARK_MAPPING[alias][1]
RateVariant(alias) == BENCHMARK_MAPPING[alias][2]

\* C7: convert_benchmark_names keeps length and order and maps each token on
\* its own: a full SPEC id, a suite keyword and an unknown name are returned
\* unchanged, and every one of the 20 aliases of BENCHMARK_MAPPING becomes its
\* speed variant when prefer_speed is true, its rate variant when only
\* prefer_rate is true, and its speed variant when neither is.
C7_EveryAliasReplaced ==
    cpc = "converted" =>
        /\ Len(converted_benchmarks) = Len(benchmarks)
        /\ \A i \in 1..Len(benchmarks) :
              LET tok == benchmarks[i]
                  res == converted_benchmarks[i]
              IN  /\ tok \in FullIdTokens \cup SuiteTokens \cup UnknownTokens
                        => res = tok
                  /\ tok \in Aliases =>
                        res = IF prefer_speed THEN SpeedVariant(tok)
                              ELSE IF prefer_rate THEN RateVariant(tok)
                              ELSE SpeedVariant(tok)

\* C8: no token of the output of convert_benchmark_names is an alias of the
\* table in any letter case, whether the resolver was called directly or by
\* a command.
C8_NoAliasSurvives ==
    cpc \in {"converted", "resolved"} =>
        \A i \in 1..Len(converted_benchmarks) :
            \A alias \in Aliases :
                Lower(converted_benchmarks[i]) # Lower(alias)

\* The signals of C9, each looked for in every token.
HasSpeedSignal(tok) == Contains("_s", tok) \/ Contains("speed", Lower(tok))
HasRateSignal(tok) == Contains("_r", tok) \/ Contains("rate", Lower(tok))

SpeedTokens(bs) == {i \in 1..Len(bs) : HasSpeedSignal(bs[i])}
RateTokens(bs) == {i \in 1..Len(bs) : HasRateSignal(bs[i])}

\* C9 as stated: detect_suite_preference returns (S > R, R > S), S the number
\* of tokens with a speed signal and R the number of tokens with a rate
\* signal, each token tested for both.
C9_BothSignalsCounted ==
    cpc = "detected" =>
        LET S == Cardinality(SpeedTokens(benchmarks))
            R == Cardinality(RateTokens(benchmarks))
        IN  <<prefer_speed, prefer_rate>> = <<S > R, R > S>>

\* C9 as amended: detect_suite_preference returns (S > R, R > S), S the number
\* of tokens with a speed signal and R the number of tokens with a rate signal
\* and no speed signal (a token with both counts as speed only); it never
\* returns (true, true), and returns (false, false) on a tie, as for
\* ['602.gcc_s', '519.lbm_r'].
C9_SpeedSignalFirst ==
    cpc = "detected" =>
        LET S == Cardinality(SpeedTokens(benchmarks))
            R == Cardinality(RateTokens(benchmarks) \ SpeedTokens(benchmarks))
        IN  /\ <<prefer_speed, prefer_rate>> = <<S > R, R > S>>
            /\ ~(prefer_speed /\ prefer_rate)
            /\ S = R => ~prefer_speed /\ ~prefer_rate
            /\ benchmarks = <<"602.gcc_s", "519.lbm_r">>
                  => ~prefer_speed /\ ~prefer_rate

\* A list with a token that carries both signals beside a rate token: one
\* speed and one rate token as the code counts, so neither wins.
C9_Witness ==
    /\ cpc = "detected"
    /\ benchmarks = <<"rate_s", "519.lbm_r">>
    /\ ~prefer_speed
    /\ ~prefer_rate

\* C10: in compile, run, setup and clean every alias becomes its rate variant
\* when --rate is given, its speed variant when --speed is given, and with
\* neither flag the variant detect_suite_preference infers from the same
\* list: rate when the rate signals are the strict majority, otherwise speed.
C10_VariantByFlags ==
    cpc = "resolved" =>
        \A i \in 1..Len(benchmarks) :
            benchmarks[i] \in Aliases =>
                converted_benchmarks[i] =
                    IF rate THEN RateVariant(benchmarks[i])
                    ELSE IF speed THEN SpeedVariant(benchmarks[i])
                    ELSE IF detect_suite_preference(benchmarks)[2]
                         THEN RateVariant(benchmarks[i])
                         ELSE SpeedVariant(benchmarks[i])

-----------------------------------------------------------------------------
(* The parser of the live output: C1, C2 and C6, under SpecLive *)

\* The lines of the output sorted by what a reader finds in them: nothing
\* the parser looks for (a coarse metric is no score), a path of a result
\* file or a report, a full score. A word is taken for a file by its
\* extension in lower case only.
NoEvidenceLines ==
    {"",
     "see A.RSF B.PDF",
     "Building 602.gcc_s base test-label",
     "Build successful",
     "Est. SPECrate2017_int = 5.0",
     "Est. SPECspeed2017_int_base = n/a",
     "The log for this run is in  x"}

FileLines ==
    {"The result is in result/CPU2017.001.test.rsf",
     "The results summary is in out.csv now",
     "Reports are in result/CPU2017.001.test.txt",
     "format to result/CPU2017.001.test.rsf",
     "Output written to result/CPU2017.002.ref.html"}

FullScoreLines ==
    {"Est. SPECspeed2017_int_base = 123.45",
     "Est. SPECspeed2017_int_base = 145.67",
     "  Est. SPECspeed2017_int_peak = 7",
     "est. specspeed2017_fp_base=9.50"}

LogLine == "The log for this run is in result/CPU2017.001.log"

CoarseMetricLine == "Est. SPECrate2017_int = 5.0"

\* C1: parse_result_files returns None exactly when result_files, scores and
\* log_file are all empty at the end of the text, so every record has one of
\* the three non-empty: a text with a file path or a full score in some line,
\* or whose last log line names a path, gives a record; a text with none of
\* them gives None, and so does a text in which only a coarse metric was
\* found.
C1_NoneIffNoEvidence ==
    lpc = "returned" =>
        LET lines == {output[i] : i \in 1..Len(output)}
        IN  /\ parsed \in {"None", "record"}
            /\ parsed = "None" <=>
                  /\ result_files = <<>>
                  /\ DOMAIN scores = {}
                  /\ log_file.is_none \/ log_file.value = ""
            /\ lines \subseteq NoEvidenceLines => parsed = "None"
            /\ lines \cap (FileLines \cup FullScoreLines) # {}
                  => parsed = "record"
            /\ (output # <<>> /\ output[Len(output)] = LogLine)
                  => parsed = "record"
            /\ (DOMAIN metrics # {} /\ lines \subseteq NoEvidenceLines)
                  => parsed = "None"

\* A text whose only finding is a coarse metric, returned as None.
C1_Witness ==
    /\ lpc = "returned"
    /\ output = <<CoarseMetricLine>>
    /\ DOMAIN metrics = {"SPECrate2017_int"}
    /\ parsed = "None"

\* The lines of C2 as the claim writes them, and the numbers they carry as
\* decimal fractions n / 10^k.
C2_Names == {"SPECspeed2017_int_base", "SPECspeed2017_int_peak"}
C2_Numbers ==
    "123.45" :> [n |-> 12345, k |-> 2] @@ "145.67" :> [n |-> 14567, k |-> 2]
C2_Paths ==
    {"result/CPU2017.001.test.rsf", "result/CPU2017.001.log", "out.csv"}

C2_ScoreLine(name, num) == "Est. " \o name \o " = " \o num
C2_ResultLine(path) == "The result is in " \o path
C2_LogLine(path) == "The log for this run is in " \o path

\* The lines that are neither a score line nor a log line.
C2_OtherLines == (NoEvidenceLines \ {"The log for this run is in  x"}) \cup FileLines

\* C2: every line the parser goes through has its effect: a line
\* 'Est. <full score name> = <number>' sets scores[<name>] to the number,
\* whatever an earlier line stored there, and leaves the other scores alone;
\* a line 'The result is in <path>' makes <path> a path of result_files; a
\* line 'The log for this run is in <path>' sets log_file to <path>; a line
\* of another kind changes neither scores nor log_file.
C2_LineEffects ==
    [][(lpc = "lines" /\ lpc' = "lines" /\ Len(output') = Len(output) + 1) =>
          LET line == output'[Len(output')]
          IN  /\ \A name \in C2_Names : \A num \in DOMAIN C2_Numbers :
                    line = C2_ScoreLine(name, num) =>
                        /\ DOMAIN scores' = DOMAIN scores \cup {name}
                        /\ scores'[name] = C2_Numbers[num]
                        /\ \A other \in DOMAIN scores \ {name} :
                              scores'[other] = scores[other]
                        /\ log_file' = log_file
              /\ \A path \in C2_Paths :
                    line = C2_ResultLine(path) =>
                        \E i \in 1..Len(result_files') :
                            result_files'[i].path = path
              /\ \A path \in C2_Paths :
                    line = C2_LogLine(path) =>
                        /\ ~log_file'.is_none
                        /\ log_file'.value = path
                        /\ scores' = scores
              /\ line \in C2_OtherLines =>
                    scores' = scores /\ log_file' = log_file
      ]_vars

\* Two score lines of one name gone through, the second value stored.
C2_Witness ==
    /\ lpc = "lines"
    /\ output = <<C2_ScoreLine("SPECspeed2017_int_base", "123.45"),
                  C2_ScoreLine("SPECspeed2017_int_base", "145.67")>>
    /\ DOMAIN scores = {"SPECspeed2017_int_base"}
    /\ scores["SPECspeed2017_int_base"] = [n |-> 14567, k |-> 2]

\* C6: parse_result_files never raises: whatever the text, a malformed number
\* in a score or metric line included, the call ends with a record or None.
C6_NeverRaises == lpc # "raised"

-----------------------------------------------------------------------------
(* The parser of .rsf files: C3, C4 and C5, under SpecRsf *)

\* The ids of the result lines and the keys they are stored under.
C3_Keys ==
    "648_exchange2_s" :> "648.exchange2_s" @@ "502_gcc_r" :> "502.gcc_r"
        @@ "999_bench" :> "999.bench"

\* The fields of the result lines and the names they are stored under.
C3_FloatFields ==
    "ratio" :> "ratio" @@ "reported_sec" :> "time" @@ "reference" :> "reference"
C3_IntFields == "copies" :> "copies" @@ "threads" :> "threads"

\* The numbers of the result lines as decimal fractions n / 10^k, and as
\* integers.
C3_Floats ==
    "12.380557" :> [n |-> 12380557, k |-> 6] @@ "13.5" :> [n |-> 135, k |-> 1]
        @@ "237.469" :> [n |-> 237469, k |-> 3] @@ "2940" :> [n |-> 2940, k |-> 0]
        @@ "0" :> [n |-> 0, k |-> 0] @@ "10.5" :> [n |-> 105, k |-> 1]
C3_Ints == "1" :> 1 @@ "8.0" :> 8

C3_Line(id, tune, field, num) ==
    "spec.cpu2017.results." \o id \o "." \o tune \o ".000." \o field \o ": " \o num

\* A result line of the id and the field, of either tuning and any number.
C3_IsLineOf(line, id, field) ==
    \E tune \in {"base", "peak"} : \E num \in DOMAIN C3_Floats \cup DOMAIN C3_Ints :
        line = C3_Line(id, tune, field, num)

\* The value of the last result line of the id and each field is stored.
C3_Stored(id, fields, numbers) ==
    \A i \in 1..Len(content) : \A field \in DOMAIN fields :
        \A num \in DOMAIN numbers : \A tune \in {"base", "peak"} :
            (/\ content[i] = C3_Line(id, tune, field, num)
             /\ \A j \in (i + 1)..Len(content) : ~C3_IsLineOf(content[j], id, field))
            => /\ C3_Keys[id] \in DOMAIN benchmark_results
               /\ fields[field] \in DOMAIN benchmark_results[C3_Keys[id]]
               /\ benchmark_results[C3_Keys[id]][fields[field]] = numbers[num]

\* C3: after read_result_file on an .rsf file, the value of the last
\* 'spec.cpu2017.results.<id>.<base|peak>.000.<field>' line of an id and a
\* field is stored under the id with its FIRST underscore replaced by a dot
\* and the later ones kept: ratio, reported_sec (as time) and reference as
\* floats, copies and threads as integers. No key has an underscore of its id
\* left in the first place or a later one replaced.
C3_FirstUnderscoreOnly ==
    rsf_result = "data" =>
        /\ \A id \in DOMAIN C3_Keys :
              /\ C3_Stored(id, C3_FloatFields, C3_Floats)
              /\ C3_Stored(id, C3_IntFields, C3_Ints)
              /\ id \notin DOMAIN benchmark_results
        /\ "648.exchange2.s" \notin DOMAIN benchmark_results
        /\ DOMAIN benchmark_results \subseteq
              {C3_Keys[id] : id \in DOMAIN C3_Keys} \cup {"519.lbm_r"}

\* A file with a ratio and a thread count of 648_exchange2_s, read to the end.
C3_Witness ==
    /\ rsf_result = "data"
    /\ content = <<C3_Line("648_exchange2_s", "base", "ratio", "12.380557"),
                   C3_Line("648_exchange2_s", "base", "threads", "8.0")>>
    /\ DOMAIN benchmark_results = {"648.exchange2_s"}
    /\ DOMAIN benchmark_results["648.exchange2_s"] = {"ratio", "threads"}
    /\ benchmark_results["648.exchange2_s"]["ratio"] = [n |-> 12380557, k |-> 6]
    /\ benchmark_results["648.exchange2_s"]["threads"] = 8

\* The error lines of the files: the benchmark each names and its message.
ErrorLines ==
    "spec.cpu2017.errors000: 648.exchange2_s (base) did not have enough runs!"
        :> [key |-> "648.exchange2_s", id |-> "648_exchange2_s",
            message |-> "did not have enough runs!"]
    @@ "spec.cpu2017.errors001: 502.gcc_r (base) had invalid runs!"
        :> [key |-> "502.gcc_r", id |-> "502_gcc_r",
            message |-> "had invalid runs!"]
    @@ "spec.cpu2017.errors1: 999.bench (base; ref) message"
        :> [key |-> "999.bench", id |-> "999_bench", message |-> "message"]

\* The places of the file where an error line of the benchmark stands.
ErrorLinesOf(key) ==
    {i \in 1..Len(content) :
        content[i] \in DOMAIN ErrorLines /\ ErrorLines[content[i]].key = key}

\* The benchmark is named by error lines of the file and by no other line.
OnlyInErrorLines(key) ==
    /\ ErrorLinesOf(key) # {}
    /\ \A i \in 1..Len(content) :
          content[i] \in DOMAIN ErrorLines
          \/ (/\ ~Contains(key, content[i])
              /\ \A e \in DOMAIN ErrorLines :
                    ErrorLines[e].key = key => ~Contains(ErrorLines[e].id, content[i]))

\* C4: no entry of benchmark_results has a 'warning' field without a 'ratio'
\* field, at any point of read_result_file, and after it a benchmark that is
\* named only by error lines of the file has no entry at all.
C4_NoWarningWithoutRatio ==
    /\ \A b \in DOMAIN benchmark_results :
          "warning" \in DOMAIN benchmark_results[b]
              => "ratio" \in DOMAIN benchmark_results[b]
    /\ rsf_result = "data" =>
          \A e \in DOMAIN ErrorLines :
              OnlyInErrorLines(ErrorLines[e].key)
                  => ErrorLines[e].key \notin DOMAIN benchmark_results

\* A file with a time and an error line of 999.bench and no ratio of it: the
\* entry is there, without a warning; and a file with the error line alone.
C4_Witness ==
    /\ rsf_result = "data"
    /\ content = <<"spec.cpu2017.errors1: 999.bench (base; ref) message",
                   C3_Line("999_bench", "base", "reported_sec", "10.5")>>
    /\ DOMAIN benchmark_results = {"999.bench"}
    /\ DOMAIN benchmark_results["999.bench"] = {"time"}

\* C5: after read_result_file, a benchmark with a recorded ratio, whatever
\* its value, 0 included, and an error line in the file has the message of
\* the error line as its warning, wherever the error line stands.
C5_WarningAttached ==
    rsf_result = "data" =>
        \A e \in DOMAIN ErrorLines :
            LET key == ErrorLines[e].key
            IN  (/\ ErrorLinesOf(key) # {}
                 /\ key \in DOMAIN benchmark_results
                 /\ "ratio" \in DOMAIN benchmark_results[key])
                => /\ "warning" \in DOMAIN benchmark_results[key]
                   /\ benchmark_results[key]["warning"] = ErrorLines[e].message

-----------------------------------------------------------------------------
(* The command builder: C11, C12 and C13, under SpecBuild *)

\* The first token of every command: runcpu from PATH, or the path of
\* bin/runcpu under the root.
RuncpuPath ==
    IF bargs.spec_root.is_none THEN "runcpu"
    ELSE PathJoin(bargs.spec_root.value, "bin/runcpu")

\* The places of a token in the command.
PlacesOf(token) == {p \in 1..Len(cmd) : cmd[p] = token}

\* C11: for action 'update' the command is exactly the runcpu path and
\* '--update', followed by one verbosity token when verbose is set and by
\* nothing else, whatever the other arguments are.
C11_UpdateExact ==
    (bpc = "returned" /\ bargs.action = "update") =>
        /\ Len(cmd) = IF bargs.verbose THEN 3 ELSE 2
        /\ cmd[1] = RuncpuPath
        /\ cmd[2] = "--update"
        /\ PlacesOf("--action") = {}
        /\ PlacesOf("--config") = {}
        /\ PlacesOf("--output_format") = {}

\* The flags of a command in the order they are to appear in; --reportable
\* and --noreportable share a place.
FlagOrder ==
    <<"--action", "--config", "--tune", "--size", "--copies", "--threads",
      "--iterations", "--reportable", "--noreportable", "--output_format",
      "--verbose=5", "--rebuild", "--parallel_test", "--ignore_errors">>

FlagSet == {FlagOrder[i] : i \in 1..Len(FlagOrder)}

FlagRank == [f \in FlagSet |-> CHOOSE i \in 1..Len(FlagOrder) : FlagOrder[i] = f]

\* The places of the command where a flag stands.
FlagPlaces == {p \in 1..Len(cmd) : cmd[p] \in FlagSet}

\* C12: for every action but update the command starts with the runcpu path,
\* --action and --config; each flag stands at most once and the flags stand
\* in the order of FlagOrder, so --output_format before the verbosity token;
\* the benchmark tokens are the last tokens, in their input order, and no
\* flag stands among or after them.
C12_FixedOrder ==
    (bpc = "returned" /\ bargs.action # "update") =>
        LET nb == Len(bargs.benchmarks)
            nf == Len(cmd) - nb
        IN  /\ nf >= 5
            /\ cmd[1] = RuncpuPath
            /\ cmd[2] = "--action" /\ cmd[3] = bargs.action
            /\ cmd[4] = "--config" /\ cmd[5] = bargs.config
            /\ \A p \in FlagPlaces : \A q \in FlagPlaces :
                  p < q => FlagRank[cmd[p]] < FlagRank[cmd[q]]
            /\ \A p \in FlagPlaces : p <= nf
            /\ \A k \in 1..nb : cmd[nf + k] = bargs.benchmarks[k]
            /\ (bargs.verbose /\ PlacesOf("--output_format") # {}) =>
                  \E p \in PlacesOf("--output_format") :
                      \E q \in PlacesOf("--verbose=5") : p < q

\* A run with every option given and two benchmarks.
C12_Witness ==
    /\ bpc = "returned"
    /\ cmd = <<"/opt/spec2017/bin/runcpu", "--action", "run",
               "--config", "myconfig.cfg", "--tune", "base", "--size", "ref",
               "--copies", "0", "--threads", "8", "--iterations", "3",
               "--reportable", "--output_format", "rsf", "--verbose=5",
               "--rebuild", "--parallel_test", "16", "--ignore_errors",
               "519.lbm_r", "502.gcc_r">>

\* The spellings of 'all' among the output formats of the calls.
AllSpellings == {"all", "ALL"}

\* C13: with no output format given the command carries
\* '--output_format rsf,pdf'; with 'all' in any letter case it carries no
\* '--output_format'; with any other value it carries '--output_format' and
\* the value as given. '--output_format' never stands twice.
C13_OutputFormat ==
    bpc = "returned" =>
        LET P  == PlacesOf("--output_format")
            of == bargs.output_formats
        IN  /\ Cardinality(P) <= 1
            /\ of.is_none =>
                  \E p \in P : p < Len(cmd) /\ cmd[p + 1] = "rsf,pdf"
            /\ (~of.is_none /\ of.value \in AllSpellings) => P = {}
            /\ (~of.is_none /\ of.value \notin AllSpellings) =>
                  \E p \in P : p < Len(cmd) /\ cmd[p + 1] = of.value

\* A call with 'ALL': no --output_format in the command.
C13_Witness ==
    /\ bpc = "returned"
    /\ bargs.output_formats = SomeStr("ALL")
    /\ bargs.action = "run"
    /\ \A p \in 1..Len(cmd) : cmd[p] # "--output_format"

-----------------------------------------------------------------------------
(* The config generator: C14 - C18, under SpecGen *)

\* The template of the call is there and can be read.
TemplateReadable ==
    /\ SpecPath(gargs, machine) # ""
    /\ TemplatePath(SpecPath(gargs, machine)) \in machine.fs
    /\ machine.template.readable

\* C14: generate_config_from_template never raises. Each call ends by
\* returning None or the path of a file that was not there before the call,
\* is there after it, and has a name ending in '.cfg'. When the template is
\* absent under spec_root/config the call returns None and writes no file.
C14_NeverRaises ==
    [][ /\ gpc' # "raised"
        /\ (gpc # "returned" /\ gpc' = "returned") =>
              /\ \/ generated'.is_none
                 \/ /\ EndsWith(generated'.value, ".cfg")
                    /\ generated'.value \notin DOMAIN tmpfiles
                    /\ generated'.value \in DOMAIN tmpfiles'
              /\ (/\ SpecPath(gargs, machine) # ""
                  /\ TemplatePath(SpecPath(gargs, machine)) \notin machine.fs)
                    => generated'.is_none /\ tmpfiles' = tmpfiles ]_vars

\* A call whose template is read and whose GCC probe times out has ended,
\* with None.
C14_Witness ==
    /\ gpc = "returned"
    /\ generated.is_none
    /\ TemplateReadable
    /\ gargs.compiler = "gcc"
    /\ detect_gcc_version(machine).raised
    /\ effective_compiler = "gcc"

\* A line that sets a compiler, or basepeak: what the entries of
\* generate_intel_config_additions put into a config and neither the
\* template nor the extra settings of the calls do.
IsIntelDirective(line) ==
    \/ OccursAt("      CC              = ", line, 1)
    \/ OccursAt("      CXX             = ", line, 1)
    \/ OccursAt("      FC              = ", line, 1)
    \/ line = "      basepeak        = yes"

HasIntelDirective(text) == \E i \in 1..Len(text) : IsIntelDirective(text[i])

\* The three conditions of the Intel toolchain on the machine of the call.
C15_IntelValidated ==
    LET p == detect_intel_oneapi_path(machine)
    IN  /\ p # ""
        /\ "PATH" \in setup_intel_oneapi_environment(machine, p)
        /\ validate_intel_oneapi_setup(machine)

\* Intel is the compiler of the call: asked for, or chosen because oneAPI
\* is found.
C15_IntelSelected ==
    \/ gargs.compiler \in {"intel", "oneapi"}
    \/ gargs.compiler = "" /\ detect_intel_oneapi_path(machine) # ""

\* C15: a generated config holds Intel compiler directives only if oneAPI
\* was detected, its environment holds PATH and the validation succeeded.
\* When Intel is selected, asked for or chosen, and one of the three fails,
\* the effective compiler is gcc from then on and no Intel entry is added.
C15_IntelOnlyWhenValidated ==
    /\ (gpc \in {"gcc", "write", "returned"} /\ effective_compiler # "") =>
          /\ config_add # gargs.config_add => C15_IntelValidated
          /\ (C15_IntelSelected /\ ~C15_IntelValidated) =>
                effective_compiler = "gcc" /\ config_add = gargs.config_add
    /\ (gpc = "returned" /\ ~generated.is_none) =>
          (HasIntelDirective(tmpfiles[generated.value]) => C15_IntelValidated)

\* Intel asked for on a machine where oneAPI is found and sets PATH but icpx
\* is missing: the config is generated for gcc, without an Intel directive.
C15_Witness ==
    /\ gpc = "returned"
    /\ ~generated.is_none
    /\ gargs.compiler = "intel"
    /\ detect_intel_oneapi_path(machine) # ""
    /\ "PATH" \in setup_intel_oneapi_environment(machine,
                                                 detect_intel_oneapi_path(machine))
    /\ ~validate_intel_oneapi_setup(machine)
    /\ effective_compiler = "gcc"
    /\ ~HasIntelDirective(tmpfiles[generated.value])

\* The entries that generate_intel_config_additions gave to the call.
IntelEntries == SubSeq(config_add, Len(gargs.config_add) + 1, Len(config_add))

\* The entries of one suite are its base entries, the compilers first, and
\* then one peak entry that sets basepeak.
C16_SuiteBlock(E, s) ==
    LET I == {i \in 1..Len(E) : OccursAt(s \o "=", E[i], 1)}
        P == {i \in I : OccursAt(s \o "=peak:", E[i], 1)}
    IN  /\ I # {}
        /\ Cardinality(P) = 1
        /\ \A i \in P : /\ E[i] = s \o "=peak: basepeak = yes"
                        /\ \A k \in I : k <= i
        /\ \A i \in I \ P : OccursAt(s \o "=base:", E[i], 1)
        /\ \E i \in I : OccursAt(s \o "=base:CC=", E[i], 1)
        /\ \E i \in I : OccursAt(s \o "=base:CXX=", E[i], 1)
        /\ \A i \in I : \A k \in I : i < k => \A x \in i..k : x \in I

\* C16: every entry of generate_intel_config_additions has the section
\* fprate or fpspeed, never intrate or intspeed; for each of fprate and
\* fpspeed there are the base entries and after them exactly one peak
\* entry, which sets basepeak to yes.
C16_FloatingPointOnly ==
    (gpc \in {"write", "returned"} /\ Len(config_add) > Len(gargs.config_add)) =>
        LET E == IntelEntries
        IN  /\ \A i \in 1..Len(E) :
                  /\ OccursAt("fprate=", E[i], 1) \/ OccursAt("fpspeed=", E[i], 1)
                  /\ ~OccursAt("intrate", E[i], 1)
                  /\ ~OccursAt("intspeed", E[i], 1)
            /\ C16_SuiteBlock(E, "fprate")
            /\ C16_SuiteBlock(E, "fpspeed")

\* The Intel entries of a call on a machine without ifx: ten base entries and
\* two peak entries.
C16_Witness ==
    /\ gpc = "returned"
    /\ effective_compiler = "intel"
    /\ Len(IntelEntries) = 12
    /\ IntelEntries[6] = "fprate=peak: basepeak = yes"
    /\ IntelEntries[12] = "fpspeed=peak: basepeak = yes"

\* The value the tune line is to carry for a tune value.
C17_Mapped(t) ==
    CASE t = "base" -> "base"
      [] t = "peak" -> "peak"
      [] t = "all"  -> "base,peak"
      [] OTHER      -> t

\* The lines of a text that set tune, and the markers on a line.
TuneLines(text) == {i \in 1..Len(text) : OccursAt("tune                 = ", text[i], 1)}

Markers(line) == Cardinality(Occurrences("(auto-set)", line))

\* The configs written so far, a file that could not be filled left out.
Written == {f \in DOMAIN tmpfiles : tmpfiles[f] # <<"">>}

\* C17: for the template of SPEC and a tune value t every generated config
\* has the label 'specer' and one tune line, which carries the mapped value
\* of t and exactly one '(auto-set)' marker; the configs of two calls with
\* the same arguments have the same tune line. With tune None the tune line
\* is the one of the template.
C17_TuneRewritten ==
    (gpc = "returned" /\ machine.template.text = ExampleTemplate) =>
        /\ \A f \in Written :
              LET text == tmpfiles[f]
              IN  /\ text[1] = LabelLine("specer")
                  /\ Cardinality(TuneLines(text)) = 1
                  /\ \A i \in TuneLines(text) :
                        IF gargs.tune.is_none
                        THEN text[i] = TuneLine("base,peak")
                        ELSE /\ text[i] = TuneLine(C17_Mapped(gargs.tune.value))
                                          \o " (auto-set)"
                             /\ Markers(text[i]) = 1
        /\ \A f \in Written : \A g \in Written :
              \A i \in TuneLines(tmpfiles[f]) : \A k \in TuneLines(tmpfiles[g]) :
                  tmpfiles[f][i] = tmpfiles[g][k]

\* Two calls with tune 'all' have given two configs, each with the tune line
\* of 'base,peak' and its marker.
C17_Witness ==
    /\ gpc = "returned"
    /\ gcalls = 2
    /\ gargs.tune = SomeStr("all")
    /\ machine.template.text = ExampleTemplate
    /\ Cardinality(Written) = 2
    /\ \A f \in Written :
          tmpfiles[f][4] = TuneLine("base,peak") \o " (auto-set)"

\* A GCC probe of the machine does not answer in time.
GccProbeTimedOut == machine.which_gcc = TimedOut \/ machine.gcc_version = TimedOut

\* C18: a timeout of a GCC probe is taken as 'GCC not detected': a call
\* that reads its template and can write its file returns a config path,
\* and the config has the GCC settings of the template.
C18_ProbeTimeoutTolerated ==
    (/\ gpc = "returned"
     /\ TemplateReadable
     /\ machine.tmp = "ok"
     /\ gargs.compiler \in {"", "gcc"}
     /\ GccProbeTimedOut) =>
        /\ ~generated.is_none
        /\ \E i \in 1..Len(tmpfiles[generated.value]) :
              tmpfiles[generated.value][i] = GccDirLine("/opt/rh/devtoolset-9/root/usr")

-----------------------------------------------------------------------------
(* The invocations: C19 and C20, under SpecInvoke *)

\* An invocation of run, compile or clean has ended.
CommandEnded == ipc = "ended" /\ iargs.command # "execute_runcpu"

\* C19: when an invocation of run, compile or clean has ended, the config
\* file it generated is deleted: after a dry run, after a successful
\* execution, after runcpu exited nonzero, after runcpu was not found and
\* after a keyboard interrupt. (An unlink that fails is left aside.)
C19_GeneratedConfigDeleted ==
    (CommandEnded /\ iargs.unlink = "ok" /\ ~generated.is_none) =>
        generated.value \notin DOMAIN tmpfiles

\* execute_runcpu has been called and is over.
Executed == Happened("runcpu_done")

\* C20: execute_runcpu passes the outcome of the external command on: exit
\* code 0 raises nothing; an exit code n other than 0 raises typer.Exit(n)
\* and returns nothing; FileNotFoundError raises typer.Exit(1); a keyboard
\* interrupt raises typer.Exit(130).
C20_OutcomePassedThrough ==
    Executed =>
        CASE proc.kind = "not_found" -> raised = Exit(1)
          [] proc.kind = "interrupt" -> raised = Exit(130)
          [] proc.kind = "exit" /\ proc.returncode # 0 ->
                raised = Exit(proc.returncode) /\ result_info = ""
          [] OTHER -> raised = NotRaised

-----------------------------------------------------------------------------
(* The commands from their flag check on: C21, under SpecInvoke *)

\* C21: when both --speed and --rate are given to compile, run, setup or
\* clean, the command ends with exit code 1 before any other step: no call
\* of the generator is started and no file is written, the names are not
\* resolved (and by no command with both preferences true), no runcpu
\* command is built, and nothing is signalled or executed.
C21_BothFlagsRejectedFirst ==
    iargs.command \in Commands =>
        /\ ~(prefer_speed /\ prefer_rate)
        /\ (iargs.speed /\ iargs.rate) =>
              /\ ipc \in {"flags", "ended"}
              /\ ipc = "ended" => raised = Exit(1) /\ exit_code = 1
              /\ gcalls = 0 /\ gpc = "idle" /\ generated.is_none
              /\ DOMAIN tmpfiles = {}
              /\ cpc \in {"start", "exit_flags"}
              /\ converted_benchmarks = <<>>
              /\ final_cmd = <<>>
              /\ events = <<>>

\* run has ended on both flags, with no config given: one would have been
\* generated.
C21_Witness ==
    /\ ipc = "ended"
    /\ command = "run" /\ speed /\ rate
    /\ iargs.config = ""
    /\ raised = Exit(1)

-----------------------------------------------------------------------------
(* build_affinity_command: C22, under SpecAffinity *)

\* What the claim has returned for a node n where numactl is there.
C22_Wrapped(a) ==
    <<"numactl", "--cpunodebind", IntToStr(a.numa_node.value)>>
    \o (IF ~a.numa_memory.is_none /\ ~a.numa_memory.value
        THEN <<>> ELSE <<"--membind", IntToStr(a.numa_node.value)>>)
    \o (IF Truthy(a.cpu_cores)
        THEN <<"--physcpubind", a.cpu_cores.value>> ELSE <<>>)
    \o <<"--">> \o a.base_cmd

\* C22: build_affinity_command wraps the command whenever a node is given,
\* node 0 included: with numactl there the result is numactl, --cpunodebind
\* n, --membind n unless numa_memory is false, --physcpubind and the cores
\* if cores are given, "--", and the base command unchanged. The base
\* command comes back as it is only when neither a node nor cores are
\* given, or when no tool that could bind them is there.
C22_NodeAlwaysWrapped ==
    apc = "returned" =>
        /\ (~aargs.numa_node.is_none /\ aargs.numactl = "ok") =>
              acmd = C22_Wrapped(aargs)
        /\ acmd = aargs.base_cmd =>
              \/ aargs.numa_node.is_none /\ ~Truthy(aargs.cpu_cores)
              \/ /\ aargs.numactl # "ok"
                 /\ aargs.taskset # "ok" \/ ~Truthy(aargs.cpu_cores)

-----------------------------------------------------------------------------
(* The extra settings: C23, C25 and C30, under SpecGen *)

\* An extra setting that the loop does not skip: "section:key=value".
WellFormed(addition) ==
    /\ Find(":", addition) # 0
    /\ Find("=", SubSeq(addition, Find(":", addition) + 1, Len(addition))) # 0

\* The header line and the setting line of a well-formed setting.
HeaderOf(addition) ==
    Strip(SubSeq(addition, 1, Find(":", addition) - 1)) \o ":"

SettingOf(addition) ==
    LET config_part == SubSeq(addition, Find(":", addition) + 1, Len(addition))
        eq == Find("=", config_part)
    IN  "      " \o PadRight(Strip(SubSeq(config_part, 1, eq - 1)), 15)
        \o " = " \o Strip(SubSeq(config_part, eq + 1, Len(config_part)))

\* With the call about to go through its extra settings (gpc = "write"):
\* the text the k-th setting finds and the text it leaves.
TextBefore(k) ==
    ApplyAdditions(SetTune(template_content, gargs.tune),
                   SubSeq(config_add, 1, k - 1))

TextAfter(k) == ApplyAddition(TextBefore(k), config_add[k])

\* The line of the first candidate of the list that the text holds, 0 when
\* it holds none.
CandidateLine(text) ==
    IF FirstPattern(text, 1) = 0 THEN 0
    ELSE FirstLine(text, insertion_patterns[FirstPattern(text, 1)], 1)

\* text with the lines of block put in after its line i
InsertedAfter(text, i, block) ==
    SubSeq(text, 1, i) \o block \o SubSeq(text, i + 1, Len(text))

\* C23: a well-formed extra setting goes to one of three places. Where the
\* text holds its header, the setting line is inserted right after the
\* line of the header's first occurrence; else, where the text holds a
\* candidate of the list, the new block (header line, setting line) is
\* inserted right before the line of the first candidate found; else the
\* block is appended at the end.
C23_ThreePlaces ==
    gpc = "write" =>
        \A k \in 1..Len(config_add) :
            WellFormed(config_add[k]) =>
                LET T == TextBefore(k)
                    hd == HeaderOf(config_add[k])
                    st == SettingOf(config_add[k])
                    h == FirstLine(T, hd, 1)
                    c == CandidateLine(T)
                IN  TextAfter(k) =
                        IF h # 0 THEN InsertedAfter(T, h, <<st>>)
                        ELSE IF c # 0 THEN InsertedAfter(T, c - 1, <<hd, st, "">>)
                        ELSE T \o <<"", hd, st, "">>

\* The forms of a new block: header line and setting line, with or without
\* an empty line before and after.
BlocksOf(addition) ==
    LET hd == HeaderOf(addition)
        st == SettingOf(addition)
    IN  {<<hd, st>>, <<hd, st, "">>, <<"", hd, st>>, <<"", hd, st, "">>}

\* C30: an extra setting whose header the text does not hold leaves every
\* line of the text as it is: the text after it is the text before it with
\* the new block inserted once, between two lines or at an end, so that no
\* header (such as "intrate,intspeed=base:") is split or doubled.
C30_ExistingLinesIntact ==
    gpc = "write" =>
        \A k \in 1..Len(config_add) :
            (/\ WellFormed(config_add[k])
             /\ FirstLine(TextBefore(k), HeaderOf(config_add[k]), 1) = 0) =>
                \E i \in 0..Len(TextBefore(k)), block \in BlocksOf(config_add[k]) :
                    TextAfter(k) = InsertedAfter(TextBefore(k), i, block)

\* The well-formed settings of a list, in their order.
RECURSIVE WellFormedOnly(_)
WellFormedOnly(additions) ==
    IF additions = <<>> THEN <<>>
    ELSE (IF WellFormed(Head(additions)) THEN <<Head(additions)>> ELSE <<>>)
         \o WellFormedOnly(Tail(additions))

\* C25: a malformed extra setting (no ":", or no "=" after the section) is
\* skipped without effect: the text written is the text that the
\* well-formed settings of the list alone give, each of them applied
\* whether it stands before or after a malformed one, and the call still
\* returns the path of the file that holds this text.
C25_MalformedSkipped ==
    [][(gpc = "write" /\ gpc' = "returned") =>
          /\ template_content' =
                 SetCopies(ApplyAdditions(SetTune(template_content, gargs.tune),
                                          WellFormedOnly(config_add)),
                           gargs.cores, machine.cpu_count)
          /\ machine.tmp = "ok" =>
                /\ ~generated'.is_none
                /\ tmpfiles'[generated'.value] = template_content']_vars

\* A call has returned the path of a file that holds the settings given
\* before and after a malformed one.
C25_Witness ==
    /\ gpc = "returned"
    /\ Len(gargs.config_add) = 3
    /\ WellFormed(gargs.config_add[1])
    /\ ~WellFormed(gargs.config_add[2])
    /\ WellFormed(gargs.config_add[3])
    /\ ~generated.is_none
    /\ \E i \in 1..Len(tmpfiles[generated.value]) :
           tmpfiles[generated.value][i] = SettingOf(gargs.config_add[1])
    /\ \E i \in 1..Len(tmpfiles[generated.value]) :
           tmpfiles[generated.value][i] = SettingOf(gargs.config_add[3])

-----------------------------------------------------------------------------
(* The substitutions: C24 and C26, under SpecGen *)

\* How many lines of a text are the line given.
LinesEqual(text, line) == Cardinality({i \in 1..Len(text) : text[i] = line})

\* The lines of the template that the substitutions look for.
SubstitutionTargets ==
    {LabelLine("mytest"), "#" \o GCCge10Line,
     GccDirLine("/opt/rh/devtoolset-9/root/usr"), TuneLine("base,peak"),
     CopiesLine("1")}

\* C24: each substitution (label, GCC gate, gcc_dir, tune, copies) replaces
\* the first occurrence of its target only: of the lines of the template
\* that are a target, at most one is changed in the generated config, the
\* others are left as they are; the label and the copies line, which are
\* always substituted, are changed exactly once.
C24_FirstOccurrenceOnly ==
    (gpc = "returned" /\ ~generated.is_none) =>
        LET file == tmpfiles[generated.value]
            text == machine.template.text
        IN  /\ \A old \in SubstitutionTargets :
                   LinesEqual(file, old) >= LinesEqual(text, old) - 1
            /\ \A old \in {LabelLine("mytest"), CopiesLine("1")} :
                   LinesEqual(text, old) > 0 =>
                       LinesEqual(file, old) = LinesEqual(text, old) - 1

\* The call has taken the GCC branch and found a major version of 10 or more.
DetectedGcc10 ==
    /\ effective_compiler = "gcc"
    /\ ~detect_gcc_version(machine).value.is_none
    /\ detect_gcc_version(machine).value.value >= 10

\* The lines that hold the directive commented out, and uncommented with
\* the marker.
CommentedGate(text) ==
    {i \in 1..Len(text) : Contains("#%define GCCge10", text[i])}

UncommentedGate(text) ==
    {i \in 1..Len(text) : /\ OccursAt("%define GCCge10", text[i], 1)
                          /\ Contains("(auto-detected)", text[i])}

\* C26: in a generated config, when the GCC major version detected is 10
\* or more the GCCge10 directive is uncommented: no "#%define GCCge10" is
\* left, and the lines of the template that held it hold "%define GCCge10"
\* with the (auto-detected) marker. When the version is below 10 or not
\* detected the directive stays commented as in the template.
C26_GateFollowsVersion ==
    (gpc = "returned" /\ ~generated.is_none) =>
        LET file == tmpfiles[generated.value]
            text == machine.template.text
        IN  IF DetectedGcc10
            THEN /\ CommentedGate(file) = {}
                 /\ Cardinality(UncommentedGate(file))
                        = Cardinality(CommentedGate(text))
            ELSE /\ Cardinality(CommentedGate(file))
                        = Cardinality(CommentedGate(text))
                 /\ UncommentedGate(file) = {}

\* A config generated with GCC 11 from a template that holds the directive
\* twice.
C26_Witness ==
    /\ gpc = "returned"
    /\ ~generated.is_none
    /\ DetectedGcc10
    /\ Cardinality(CommentedGate(machine.template.text)) = 2
    /\ Cardinality(UncommentedGate(tmpfiles[generated.value])) = 2

-----------------------------------------------------------------------------
(* The discovered files: C27, under SpecLive *)

\* The paths a line announces through the result_file and the
\* report_location pattern.
Announced(line) ==
    {m.g1 : m \in {x \in {ResultFileMatch(line), ReportLocationMatch(line)} :
                      x.ok /\ x.g1 # ""}}

\* The words of a line the sniffing takes for result files.
Sniffed(line) ==
    IF \E ext \in Exts : Contains(ext, Lower(line))
    THEN {w \in {Split(line)[i] : i \in 1..Len(Split(line))} :
             \E ext \in Exts : EndsWith(w, ext)}
    ELSE {}

NoTwoSamePath(files) ==
    \A i, j \in 1..Len(files) : files[i].path = files[j].path => i = j

\* C27: when parse_result_files has processed one more line, result_files holds
\* no two entries with the same path; the entries it held stay at their
\* positions with their type tags; every path the line announces or sniffs is
\* in the list; and an entry the line adds is tagged 'result' when the line
\* announces its path and 'result_file' when it is only sniffed.
C27_PathsOnce ==
    [][(lpc = "lines" /\ lpc' = "lines" /\ output' # output) =>
         LET line == Strip(output'[Len(output')])
         IN  /\ NoTwoSamePath(result_files')
             /\ Len(result_files') >= Len(result_files)
             /\ SubSeq(result_files', 1, Len(result_files)) = result_files
             /\ Announced(line) \cup Sniffed(line) \subseteq Paths(result_files')
             /\ \A i \in (Len(result_files) + 1)..Len(result_files') :
                   /\ result_files'[i].path \in Announced(line) \cup Sniffed(line)
                   /\ result_files'[i].type =
                         IF result_files'[i].path \in Announced(line)
                         THEN "result" ELSE "result_file"]_vars

\* Two lines were processed, the first one only sniffs a path and the second
\* one announces the same path: it is in the list once, tagged 'result_file'.
C27_Witness ==
    /\ lpc = "lines"
    /\ Len(output) = 2
    /\ Announced(Strip(output[1])) = {}
    /\ Sniffed(Strip(output[1])) = Announced(Strip(output[2]))
    /\ Sniffed(Strip(output[1])) # {}
    /\ Len(result_files) = 1
    /\ result_files[1].type = "result_file"

-----------------------------------------------------------------------------
(* The deletion of the generated file: C28, under SpecInvoke *)

\* C28: an invocation of run, compile or clean whose deletion of the generated
\* config file fails ends as the same invocation does when the deletion
\* works: the OSError of the deletion is never what the invocation raises,
\* after an execution and on the dry-run path.
C28_UnlinkFailureSuppressed ==
    (ipc = "ended" /\ iargs.unlink = "fails" /\ generated_config_path # "")
        => raised # Uncaught("OSError")

-----------------------------------------------------------------------------
(* The order of the synchronisation events: C29, under SpecInvoke *)

\* Every e2 among the events has an e1 before it.
Precedes(e1, e2) ==
    \A i \in 1..Len(events) :
        events[i] = e2 => \E j \in 1..(i - 1) : events[j] = e1

\* C29: in an invocation of run with --sync whose worker was created, the
\* start signal is received only after the ready signal was sent, runcpu is
\* started only after wait_for_start has returned, and the cleanup of the
\* worker is the last event: nothing follows it, and an execution that was
\* started has ended before it, normally or with an error. (When a signal
\* fails the worker is cleaned up and runcpu is never started.)
C29_SyncOrder ==
    (iargs.command = "run" /\ iargs.sync \in {"ok", "ready_fails", "start_fails"})
        => /\ Precedes("ready", "start")
           /\ Precedes("start", "runcpu")
           /\ Precedes("runcpu", "runcpu_done")
           /\ \A i \in 1..Len(events) :
                 events[i] = "cleanup" =>
                     /\ i = Len(events)
                     /\ Happened("runcpu") => Happened("runcpu_done")
           /\ \A i, j \in 1..Len(events) : events[i] = events[j] => i = j

\* A synchronised run whose runcpu ended with a nonzero return code: all four
\* events happened, the cleanup last.
C29_Witness ==
    /\ ipc = "ended"
    /\ iargs.command = "run"
    /\ iargs.sync = "ok"
    /\ raised.kind = "Exit"
    /\ events = <<"ready", "start", "runcpu", "runcpu_done", "cleanup">>

=============================================================================
